---- MODULE Spec2Model ----
(***************************************************************************)
(* LANCER Bloodmoney Merc Board: the locked, money-moving endpoints of     *)
(* server.js (facility purchase, upgrade purchase, minor-slot enable,      *)
(* minor-slot assign, procurement purchase), the FileMutex that guards     *)
(* them, and the derived-balance helpers they use.                         *)
(*                                                                         *)
(* The handlers are async functions.  `await fileMutex.acquire(key)` is the *)
(* only await in them: everything between the acquire and the release in   *)
(* `finally` is synchronous (readFileSync / writeFileSync / res.write), so *)
(* the try/finally block is one atomic step.                               *)
(*                                                                         *)
(* Two specifications follow the locked handlers:                         *)
(*   Spec          the Node event loop as it runs: the continuation of a   *)
(*                 successful acquire is a microtask, so nothing runs      *)
(*                 between acquire and the try block; a request is served  *)
(*                 in one step (Serve);                                    *)
(*   SpecContended FileMutex under contention: the continuation after the  *)
(*                 await is treated as a task that other requests may      *)
(*                 overtake (Arrive, Poll, Tick, Critical), which is the   *)
(*                 only way a second request can ever see the lock held.   *)
(* The other specifications follow the parts of the server outside the     *)
(* lock: SpecBroadcast (the SSE fan-out), SpecBalance, SpecFeed and        *)
(* SpecCost (the derived-balance and cost helpers, called on bounded       *)
(* arguments), SpecJobs (jobs, factions and the faction counts) and        *)
(* SpecAdmin (the admin endpoints for transactions, pilots, reserves, jobs *)
(* and factions, which are synchronous handlers and so atomic steps).      *)
(***************************************************************************)
EXTENDS Integers, Sequences, FiniteSets, TLC

\* ---------------------------------------------------------------- bounds
\* largest transaction id that generateId() may hand out under Spec
MaxTx == 3
\* number of broadcastSSE calls followed under SpecBroadcast
MaxBroadcasts == 3
\* the admin requests of one run
MaxRequests == 2
\* granularity of the clock: Date.now() advances by TickMs per Tick
TickMs == 5000

\* ------------------------------------------------------ program constants
timeoutMs == 5000
slotUnlockBasePrice == 5000
minModifier == -100
maxModifier == 300
roundingStep == 50

Reqs == {"r1", "r2"}

\* the five locked endpoints, named by the lock key each one acquires
LockKeys == {"facility-purchase", "facility-upgrade-purchase", "minor-slot-enable",
             "minor-slot-assign", "procurement-purchase"}

\* what Express does with the rejected promise of an async handler: nothing
\* (no response is ever sent) or its default error response
UnhandledRejectionStatus == {0, 500}

VARIABLES
  coreMajorFacilities,   \* base_core_major_facilities.json
  minorFacilitiesSlots,  \* minor_facilities_slots.json (.slots)
  manna,                 \* manna.json (.transactions), the ledger
  pilots,                \* pilots.json, id -> pilot
  reserves,              \* reserves.json, the catalog
  storeConfig,           \* store-config.json
  settings,              \* settings.json
  locks,                 \* FileMutex.locks: the keys mapped to true
  req,                   \* the requests in flight
  nextId,                \* the next id generateId() returns
  last,                  \* the handler run that finished last
  sseClients,            \* the Set sseClients, in insertion order
  sseBroken,             \* the connected responses whose write() throws
  sseDropped,            \* the responses broadcastSSE has deleted from the set
  sseClosed,             \* the responses whose request emitted 'close'
  sseLog,                \* what the last call of broadcastSSE did
  call,                  \* a call of a helper function: its arguments and result
  jobs,                  \* jobs.json
  factions,              \* factions.json
  served                 \* the number of admin requests answered so far

\* the state the locked handlers work on
lockedState == <<coreMajorFacilities, minorFacilitiesSlots, manna, pilots, reserves,
                 storeConfig, settings, locks, req, nextId, last>>

\* the state outside the locked handlers
others == <<sseClients, sseBroken, sseDropped, sseClosed, sseLog, call, jobs, factions,
            served>>

\* the state only the admin endpoints change
adminData == <<jobs, factions, served>>

vars == <<coreMajorFacilities, minorFacilitiesSlots, manna, pilots, reserves,
          storeConfig, settings, locks, req, nextId, last, others>>

collections == <<coreMajorFacilities, minorFacilitiesSlots, manna, pilots, reserves,
                 storeConfig, settings>>

\* ------------------------------------------------------------- helpers.js

RECURSIVE transactionAmount(_, _)
\* transactionMap[txnId]: the LAST ledger entry with that id, or 0 if none
transactionAmount(transactions, txnId) ==
  IF transactions = <<>> THEN 0
  ELSE LET t == transactions[Len(transactions)]
       IN IF t.id = txnId THEN t.amount
          ELSE transactionAmount(SubSeq(transactions, 1, Len(transactions) - 1), txnId)

RECURSIVE sumAmounts(_, _)
sumAmounts(ids, transactions) ==
  IF ids = <<>> THEN 0
  ELSE transactionAmount(transactions, Head(ids)) + sumAmounts(Tail(ids), transactions)

RECURSIVE sumLedger(_)
sumLedger(transactions) ==
  IF transactions = <<>> THEN 0
  ELSE Head(transactions).amount + sumLedger(Tail(transactions))

\* mutation: the balance is the sum of the ledger, whatever the pilot refers to
calculatePilotBalanceWholeLedger(pilot, transactions) ==
  IF Len(pilot.personalTransactions) = 0 THEN 0
  ELSE sumLedger(transactions)

calculatePilotBalance(pilot, transactions) ==
  IF Len(pilot.personalTransactions) = 0 THEN 0
  ELSE sumAmounts(pilot.personalTransactions, transactions)

\* Math.round of the non-negative rational num/den
mathRound(num, den) == (2 * num + den) \div (2 * den)

\* Math.ceil of the non-negative rational num/den
mathCeil(num, den) == (num + den - 1) \div den

clampModifier(mod) ==
  IF mod < minModifier THEN minModifier ELSE IF mod > maxModifier THEN maxModifier ELSE mod

\* Math.floor of the non-negative rational num/den
mathFloor(num, den) == num \div den

\* price * (1 + c / 100) / 50 is evaluated in IEEE-754 doubles.  Where the real
\* value is not k + 1/2 the rounding errors (below 1e-12) cannot change what
\* Math.round returns.  Where it is k + 1/2 the double is either k + 1/2 or
\* just below it: these are the pairs <<price, c>>, among CostPrices and the
\* clamped CostModifiers, at which it is below
doubleBelowHalf == {<<125, -80>>, <<250, -90>>, <<500, -55>>, <<625, -80>>}

\* the function for a numeric price and a numeric modifier
applyFacilityCostModifier(basePrice, modifier) ==
  IF basePrice < 0 THEN 0
  ELSE LET c == clampModifier(modifier) IN
       IF <<basePrice, c>> \in doubleBelowHalf
       THEN mathFloor(basePrice * (100 + c), 100 * roundingStep) * roundingStep
       ELSE mathRound(basePrice * (100 + c), 100 * roundingStep) * roundingStep

\* JavaScript values handed to the function: a number, a string that reads as
\* a number, null, and values that Number() turns into NaN
Num(n) == [t |-> "number", v |-> n]
NumericString(n) == [t |-> "numeric string", v |-> n]
NonNumeric == {[t |-> k, v |-> 0] : k \in {"text", "undefined", "NaN"}}
Null == [t |-> "null", v |-> 0]

\* Number(x)
Number(x) ==
  CASE x.t \in {"number", "numeric string"} -> [nan |-> FALSE, v |-> x.v]
    [] x.t = "null" -> [nan |-> FALSE, v |-> 0]
    [] OTHER -> [nan |-> TRUE, v |-> 0]

\* helpers.applyFacilityCostModifier, for any JavaScript arguments
serverApplyFacilityCostModifier(basePrice, modifier) ==
  LET price == Number(basePrice) IN
  IF price.nan \/ price.v < 0 THEN 0
  ELSE LET mod == Number(modifier) IN
       IF mod.nan THEN mathRound(price.v, roundingStep) * roundingStep
       ELSE applyFacilityCostModifier(price.v, mod.v)

\* mutation: the copy in the browser was not given the clamp
clientApplyFacilityCostModifierNoClamp(basePrice, modifier) ==
  LET price == Number(basePrice) IN
  IF price.nan \/ price.v < 0 THEN 0
  ELSE LET mod == Number(modifier) IN
       IF mod.nan THEN mathRound(price.v, 50) * 50
       ELSE IF mod.v < -100 THEN 0
       ELSE mathRound(price.v * (100 + mod.v), 100 * 50) * 50

\* applyFacilityCostModifier of public/js/shared-handlers.js
clientApplyFacilityCostModifier(basePrice, modifier) ==
  LET price == Number(basePrice) IN
  IF price.nan \/ price.v < 0 THEN 0
  ELSE LET mod == Number(modifier) IN
       IF mod.nan THEN mathRound(price.v, 50) * 50
       ELSE LET lower == IF 300 < mod.v THEN 300 ELSE mod.v
                clampedModifier == IF -100 > lower THEN -100 ELSE lower
            IN IF <<price.v, clampedModifier>> \in doubleBelowHalf
               THEN mathFloor(price.v * (100 + clampedModifier), 100 * 50) * 50
               ELSE mathRound(price.v * (100 + clampedModifier), 100 * 50) * 50

\* --------------------------------------------- shared steps of the handlers

Current ==
  [coreMajorFacilities |-> coreMajorFacilities, minorFacilitiesSlots |-> minorFacilitiesSlots,
   manna |-> manna, pilots |-> pilots, storeConfig |-> storeConfig]

\* an early `return res.status(status).json({success: false, ...})`
Reject(reason, status) ==
  [reason |-> reason, status |-> status, new |-> Current, effects |-> <<>>]

\* the in-memory values a handler has built when it starts to save
Accept(new, effects) ==
  [reason |-> "ok", status |-> 200, new |-> new, effects |-> effects]

W(collection) == [op |-> "write", name |-> collection]
B(eventType) == [op |-> "broadcast", name |-> eventType]

\* expensePilots.filter(id => !pilots.find(p => p.id === id))
invalidPilots(expensePilots) ==
  {i \in 1..Len(expensePilots) : expensePilots[i] \notin DOMAIN pilots}

\* mutation: the share is rounded down
costPerPilotRoundedDown(price, expensePilots) == price \div Len(expensePilots)

\* Math.ceil(modifiedPrice / expensePilots.length)
costPerPilot(price, expensePilots) == mathCeil(price, Len(expensePilots))

\* mutation: only the first payer's balance is compared with the share
insufficientPilotsFirstPayerOnly(expensePilots, cost) ==
  {i \in {1} :
     /\ expensePilots[i] \in DOMAIN pilots
     /\ calculatePilotBalance(pilots[expensePilots[i]], manna) < cost}

\* the forEach that collects the payers whose balance < costPerPilot
insufficientPilots(expensePilots, cost) ==
  {i \in 1..Len(expensePilots) :
     /\ expensePilots[i] \in DOMAIN pilots
     /\ calculatePilotBalance(pilots[expensePilots[i]], manna) < cost}

\* what a transaction's description text says it paid for
Description(what, index, sub, name) ==
  [what |-> what, index |-> index, sub |-> sub, name |-> name]

newTransaction(cost, description) ==
  [id |-> nextId, amount |-> 0 - cost, description |-> description]

\* mutation: the payers' lists are written from a snapshot that knows only the
\* new transaction
RECURSIVE chargePilotsFromSnapshot(_, _, _)
chargePilotsFromSnapshot(ps, expensePilots, txnId) ==
  IF expensePilots = <<>> THEN ps
  ELSE LET id == Head(expensePilots)
           charged == IF id \in DOMAIN ps
                      THEN [ps EXCEPT ![id].personalTransactions = <<txnId>>]
                      ELSE ps
       IN chargePilotsFromSnapshot(charged, Tail(expensePilots), txnId)

RECURSIVE chargePilots(_, _, _)
\* expensePilots.forEach(pilotId => pilot.personalTransactions.push(transaction.id))
chargePilots(ps, expensePilots, txnId) ==
  IF expensePilots = <<>> THEN ps
  ELSE LET id == Head(expensePilots)
           charged == IF id \in DOMAIN ps
                      THEN [ps EXCEPT ![id].personalTransactions = Append(@, txnId)]
                      ELSE ps
       IN chargePilots(charged, Tail(expensePilots), txnId)

\* ------------------- POST /api/facilities/core-major/:index/purchase

\* mutation: the ledger and the pilots are saved before the facility
facilityPurchaseEffectsLedgerFirst ==
  <<W("manna"), W("pilots"), W("coreMajorFacilities"),
    B("facilities-core-major"), B("manna"), B("pilots")>>

\* the three writeX calls, then the three broadcastSSE calls
facilityPurchaseEffects ==
  <<W("coreMajorFacilities"), W("manna"), W("pilots"),
    B("facilities-core-major"), B("manna"), B("pilots")>>

\* mutation: the purchased flag is not looked at
alreadyPurchasedUnchecked(facility) == FALSE

\* if (facility.isPurchased) return 400 'Facility is already purchased'
alreadyPurchased(facility) == facility.isPurchased

facilityPurchase(in) ==
  LET ep == in.expensePilots IN
  IF Len(ep) = 0 THEN Reject("invalid_request", 400)
  ELSE IF in.index < 0 \/ in.index >= Len(coreMajorFacilities)
  THEN Reject("invalid_index", 400)
  ELSE LET facility == coreMajorFacilities[in.index + 1] IN
  IF alreadyPurchased(facility) THEN Reject("already_purchased", 400)
  ELSE IF facility.facilityPrice = 0 THEN Reject("core_facility", 400)
  ELSE IF invalidPilots(ep) # {} THEN Reject("invalid_pilots", 400)
  ELSE LET modifiedPrice == applyFacilityCostModifier(facility.facilityPrice,
                                                      settings.facilityCostModifier)
           cost == costPerPilot(modifiedPrice, ep) IN
  IF insufficientPilots(ep, cost) # {} THEN Reject("insufficient_funds", 400)
  ELSE Accept([Current EXCEPT
                 !.manna = Append(manna, newTransaction(cost,
                                    Description("facility", in.index, 0, ""))),
                 !.pilots = chargePilots(pilots, ep, nextId),
                 !.coreMajorFacilities[in.index + 1].isPurchased = TRUE],
              facilityPurchaseEffects)

\* --- POST /api/facilities/core-major/:facilityIndex/upgrades/:upgradeIndex/purchase

\* mutation: the facilities event is sent as soon as the facilities are saved
upgradePurchaseEffectsBroadcastEarly ==
  <<W("coreMajorFacilities"), B("facilities-core-major"), W("manna"), W("pilots"),
    B("manna"), B("pilots")>>

upgradePurchaseEffects ==
  <<W("coreMajorFacilities"), W("manna"), W("pilots"),
    B("facilities-core-major"), B("manna"), B("pilots")>>

\* `upgrade.upgradeCount += 1`: a number is incremented; a count stored as a
\* string of digits gets the character "1" appended ("1" becomes "11"), and
\* upgradeCount holds the number that string is read as
plusEqualsOne(upgrade) ==
  IF upgrade.countIsString THEN 10 * upgrade.upgradeCount + 1 ELSE upgrade.upgradeCount + 1

upgradePurchase(in) ==
  LET ep == in.expensePilots IN
  IF Len(ep) = 0 THEN Reject("invalid_request", 400)
  ELSE IF in.index < 0 \/ in.index >= Len(coreMajorFacilities)
  THEN Reject("invalid_index", 400)
  ELSE LET facility == coreMajorFacilities[in.index + 1] IN
  IF ~facility.isPurchased THEN Reject("facility_unpurchased", 400)
  ELSE IF Len(facility.upgrades) = 0 THEN Reject("no_upgrades", 400)
  ELSE IF in.upgradeIndex < 0 \/ in.upgradeIndex >= Len(facility.upgrades)
  THEN Reject("invalid_upgrade_index", 400)
  ELSE LET upgrade == facility.upgrades[in.upgradeIndex + 1] IN
  IF upgrade.upgradeCount >= upgrade.maxPurchases THEN Reject("upgrade_maxed", 400)
  ELSE IF invalidPilots(ep) # {} THEN Reject("invalid_pilots", 400)
  ELSE LET modifiedPrice == applyFacilityCostModifier(upgrade.upgradePrice,
                                                      settings.facilityCostModifier)
           cost == costPerPilot(modifiedPrice, ep) IN
  IF insufficientPilots(ep, cost) # {} THEN Reject("insufficient_funds", 400)
  ELSE Accept([Current EXCEPT
                 !.manna = Append(manna, newTransaction(cost,
                                    Description("upgrade", in.index, in.upgradeIndex, ""))),
                 !.pilots = chargePilots(pilots, ep, nextId),
                 !.coreMajorFacilities[in.index + 1].upgrades[in.upgradeIndex + 1].upgradeCount
                     = plusEqualsOne(upgrade)],
              upgradePurchaseEffects)

\* ------------------- POST /api/facilities/minor-slots/:slotNumber/enable

\* minorFacilities.slots.findIndex(slot => slot.slotNumber === slotNumber), 0 if none
slotIndexOf(slots, slotNumber) ==
  LET found == {i \in 1..Len(slots) : slots[i].slotNumber = slotNumber}
  IN IF found = {} THEN 0 ELSE CHOOSE i \in found : \A j \in found : i <= j

minorSlotEnableEffects ==
  <<W("minorFacilitiesSlots"), W("manna"), W("pilots"),
    B("facilities-minor-slots"), B("manna"), B("pilots")>>

minorSlotEnable(in) ==
  LET ep == in.expensePilots
      slotIndex == slotIndexOf(minorFacilitiesSlots, in.slotNumber) IN
  IF Len(ep) = 0 THEN Reject("invalid_request", 400)
  ELSE IF slotIndex = 0 THEN Reject("invalid_slot", 400)
  ELSE IF in.slotNumber < 5 THEN Reject("slot_not_unlockable", 400)
  ELSE IF minorFacilitiesSlots[slotIndex].enabled THEN Reject("slot_already_enabled", 400)
  ELSE IF invalidPilots(ep) # {} THEN Reject("invalid_pilots", 400)
  ELSE LET modifiedPrice == applyFacilityCostModifier(slotUnlockBasePrice,
                                                      settings.facilityCostModifier)
           cost == costPerPilot(modifiedPrice, ep) IN
  IF insufficientPilots(ep, cost) # {} THEN Reject("insufficient_funds", 400)
  ELSE Accept([Current EXCEPT
                 !.manna = Append(manna, newTransaction(cost,
                                    Description("slot", in.slotNumber, 0, ""))),
                 !.pilots = chargePilots(pilots, ep, nextId),
                 !.minorFacilitiesSlots[slotIndex].enabled = TRUE],
              minorSlotEnableEffects)

\* ------------------- POST /api/facilities/minor-slots/:slotNumber/assign

\* DEFAULT_MINOR_FACILITIES, loaded from default_data at start-up
minorFacilityOptions ==
  <<[minorFacilityName |-> "Gym", minorFacilityPrice |-> 100],
    [minorFacilityName |-> "Bar", minorFacilityPrice |-> 200]>>

\* String.prototype.trim on the names the model uses
trim(s) == CASE s = "Gym " -> "Gym" [] s = "Bar " -> "Bar" [] s = " " -> "" [] OTHER -> s

minorSlotAssignEffects ==
  <<W("minorFacilitiesSlots"), W("manna"), W("pilots"),
    B("facilities-minor-slots"), B("manna"), B("pilots")>>

minorSlotAssign(in) ==
  LET ep == in.expensePilots
      slotIndex == slotIndexOf(minorFacilitiesSlots, in.slotNumber) IN
  IF Len(ep) = 0 THEN Reject("invalid_request", 400)
  ELSE IF slotIndex = 0 THEN Reject("invalid_slot", 400)
  ELSE LET slot == minorFacilitiesSlots[slotIndex] IN
  IF ~slot.enabled THEN Reject("slot_disabled", 400)
  ELSE IF slot.facilityName # "" THEN Reject("slot_occupied", 400)
  ELSE IF trim(in.facilityName) = "" THEN Reject("name_required", 400)
  ELSE IF \E i \in 1..Len(minorFacilitiesSlots) :
            /\ minorFacilitiesSlots[i].slotNumber # in.slotNumber
            /\ minorFacilitiesSlots[i].facilityName = in.facilityName
  THEN Reject("name_in_use", 400)
  ELSE LET options == {i \in 1..Len(minorFacilityOptions) :
                         minorFacilityOptions[i].minorFacilityName = in.facilityName} IN
  IF options = {} THEN Reject("unknown_facility", 400)
  ELSE IF invalidPilots(ep) # {} THEN Reject("invalid_pilots", 400)
  ELSE LET facilityOption == minorFacilityOptions[CHOOSE i \in options :
                                                    \A j \in options : i <= j]
           modifiedPrice == applyFacilityCostModifier(facilityOption.minorFacilityPrice,
                                                      settings.facilityCostModifier)
           cost == costPerPilot(modifiedPrice, ep) IN
  IF insufficientPilots(ep, cost) # {} THEN Reject("insufficient_funds", 400)
  ELSE Accept([Current EXCEPT
                 !.manna = Append(manna, newTransaction(cost,
                                    Description("minor", in.slotNumber, 0, in.facilityName))),
                 !.pilots = chargePilots(pilots, ep, nextId),
                 !.minorFacilitiesSlots[slotIndex].facilityName = trim(in.facilityName)],
              minorSlotAssignEffects)

\* ------------------------------------------ POST /api/procurement/purchase

\* the first element of seq that satisfies id = x, as an index, 0 if none
firstIndexById(seq, x) ==
  LET found == {i \in 1..Len(seq) : seq[i].id = x}
  IN IF found = {} THEN 0 ELSE CHOOSE i \in found : \A j \in found : i <= j

\* currentStock.indexOf(itemId), 1-based, 0 if absent
stockIndexOf(stock, itemId) ==
  LET found == {i \in 1..Len(stock) : stock[i] = itemId}
  IN IF found = {} THEN 0 ELSE CHOOSE i \in found : \A j \in found : i <= j

\* mutation: every occurrence of the item leaves the stock
spliceEvery(stock, i) == SelectSeq(stock, LAMBDA id : id # stock[i])

\* mutation: the occurrence that was sold stays in the stock
spliceNothing(stock, i) == stock

\* currentStock.splice(stockIndex, 1)
splice(stock, i) == SubSeq(stock, 1, i - 1) \o SubSeq(stock, i + 1, Len(stock))

\* mutation: the store configuration is saved first, like a facility collection
procurementPurchaseEffectsStoreFirst(itemType) ==
  <<W("storeConfig"), W("manna"), W("pilots"),
    B("manna"), B("pilots"), B("store-config")>>
  \o (IF itemType = "reserve" THEN <<B("reserves")>> ELSE <<>>)

procurementPurchaseEffects(itemType) ==
  <<W("manna"), W("pilots"), W("storeConfig"),
    B("manna"), B("pilots"), B("store-config")>>
  \o (IF itemType = "reserve" THEN <<B("reserves")>> ELSE <<>>)

procurementPurchase(in) ==
  LET ep == in.expensePilots IN
  IF in.itemId = "" \/ in.itemType = "" \/ Len(ep) = 0 THEN Reject("invalid_request", 400)
  ELSE IF in.itemType # "reserve" /\ in.itemType # "resupply"
  THEN Reject("invalid_item_type", 400)
  ELSE IF in.assignee = "" THEN Reject("assignee_required", 400)
  ELSE LET resupplyIndex == firstIndexById(storeConfig.resupplyItems, in.itemId)
           reserveIndex == firstIndexById(reserves, in.itemId) IN
  IF in.itemType = "resupply"
     /\ (resupplyIndex = 0 \/ ~storeConfig.resupplyItems[resupplyIndex].enabled)
  THEN Reject("resupply_unavailable", 404)
  ELSE IF in.itemType = "reserve" /\ stockIndexOf(storeConfig.currentStock, in.itemId) = 0
  THEN Reject("not_in_stock", 404)
  ELSE IF in.itemType = "reserve" /\ reserveIndex = 0 THEN Reject("reserve_not_found", 404)
  ELSE IF invalidPilots(ep) # {} THEN Reject("invalid_pilots", 400)
  ELSE IF in.assignee \notin DOMAIN pilots THEN Reject("invalid_assignee", 400)
  ELSE LET item == IF in.itemType = "resupply"
                   THEN storeConfig.resupplyItems[resupplyIndex]
                   ELSE reserves[reserveIndex] IN
  IF item.price <= 0 THEN Reject("invalid_price", 400)
  ELSE LET cost == costPerPilot(item.price, ep) IN
  IF insufficientPilots(ep, cost) # {} THEN Reject("insufficient_funds", 400)
  ELSE LET charged == chargePilots(pilots, ep, nextId)
           assigned == IF in.itemType = "reserve"
                       THEN [charged EXCEPT ![in.assignee].reserves =
                               Append(@, [reserveId |-> in.itemId,
                                          deploymentStatus |-> "In Reserve"])]
                       ELSE charged
           stock == IF in.itemType = "reserve"
                    THEN splice(storeConfig.currentStock,
                                stockIndexOf(storeConfig.currentStock, in.itemId))
                    ELSE storeConfig.currentStock
       IN Accept([Current EXCEPT
                    !.manna = Append(manna, newTransaction(cost,
                                       Description(in.itemType, 0, 0, in.itemId))),
                    !.pilots = assigned,
                    !.storeConfig.currentStock = stock],
                 procurementPurchaseEffects(in.itemType))

\* the handler behind each lock key
Handle(key, in) ==
  CASE key = "facility-purchase" -> facilityPurchase(in)
    [] key = "facility-upgrade-purchase" -> upgradePurchase(in)
    [] key = "minor-slot-enable" -> minorSlotEnable(in)
    [] key = "minor-slot-assign" -> minorSlotAssign(in)
    [] key = "procurement-purchase" -> procurementPurchase(in)

\* ------------------------------------------------------ request payloads

In0 ==
  [index |-> 0, upgradeIndex |-> 0, slotNumber |-> 0, facilityName |-> "",
   itemId |-> "", itemType |-> "", assignee |-> "", expensePilots |-> <<>>]

\* req.body.expensePilots: absent or empty, one payer, two payers, the same
\* payer twice, an id that is not a pilot
ExpensePilotsInputs ==
  {<<>>, <<"p1">>, <<"p1", "p2">>, <<"p1", "p1">>, <<"px">>}

FacilityInputs ==
  {[In0 EXCEPT !.index = 1, !.expensePilots = ep] : ep \in ExpensePilotsInputs}
  \cup {[In0 EXCEPT !.index = i, !.expensePilots = <<"p1">>] : i \in {0, 2, 3}}

UpgradeInputs ==
  {[In0 EXCEPT !.index = 0, !.expensePilots = ep] : ep \in ExpensePilotsInputs}
  \cup {[In0 EXCEPT !.index = i, !.upgradeIndex = u, !.expensePilots = <<"p1">>] :
          i \in {1, 3}, u \in {0, 1}}
  \cup {[In0 EXCEPT !.index = 0, !.upgradeIndex = 1, !.expensePilots = <<"p1">>]}

EnableInputs ==
  {[In0 EXCEPT !.slotNumber = 5, !.expensePilots = ep] : ep \in ExpensePilotsInputs}
  \cup {[In0 EXCEPT !.slotNumber = n, !.expensePilots = <<"p1">>] : n \in {1, 7}}

AssignInputs ==
  {[In0 EXCEPT !.slotNumber = 1, !.facilityName = "Gym", !.expensePilots = ep] :
     ep \in ExpensePilotsInputs}
  \cup {[In0 EXCEPT !.slotNumber = n, !.facilityName = "Gym", !.expensePilots = <<"p1">>] :
          n \in {2, 5, 7}}
  \cup {[In0 EXCEPT !.slotNumber = 1, !.facilityName = f, !.expensePilots = <<"p1">>] :
          f \in {"Gym ", " ", "Nope"}}

ProcurementInputs ==
  {[In0 EXCEPT !.itemType = "reserve", !.itemId = "ra", !.assignee = "p2",
               !.expensePilots = ep] : ep \in ExpensePilotsInputs}
  \cup {[In0 EXCEPT !.itemType = t, !.itemId = i, !.assignee = "p1",
                    !.expensePilots = <<"p1">>] :
          t \in {"reserve", "resupply", "junk"}, i \in {"ra", "repair", "off"}}
  \cup {[In0 EXCEPT !.itemType = "reserve", !.itemId = "ra", !.assignee = a,
                    !.expensePilots = <<"p1">>] : a \in {"", "px"}}
  \cup {[In0 EXCEPT !.itemType = "reserve", !.expensePilots = <<"p1">>, !.assignee = "p1"]}

Inputs(key) ==
  CASE key = "facility-purchase" -> FacilityInputs
    [] key = "facility-upgrade-purchase" -> UpgradeInputs
    [] key = "minor-slot-enable" -> EnableInputs
    [] key = "minor-slot-assign" -> AssignInputs
    [] key = "procurement-purchase" -> ProcurementInputs

\* ------------------------------------------------------------ initial state

\* the data directory at start-up: what each pilot was paid before
InitialDeposits == {<<100, 40>>, <<5000, 5000>>}
InitialModifiers == {0, -100}

\* no helper called
NoCall == [fn |-> "none"]

\* no call of broadcastSSE yet
NoBroadcast ==
  [n |-> 0, eventType |-> "none", attempted |-> {}, delivered |-> {}, threw |-> FALSE]

Idle ==
  [pc |-> "idle", key |-> "none", input |-> In0, elapsed |-> 0, result |-> "none",
   status |-> 0, okAtArrival |-> FALSE]

NoRun ==
  [key |-> "none", input |-> In0, reason |-> "none", status |-> 0, trace |-> <<>>]

\* the data directory and the server's memory once start-up is over
InitState ==
  /\ coreMajorFacilities =
       <<[isPurchased |-> TRUE, facilityPrice |-> 0,
          upgrades |-> <<[upgradePrice |-> 50, upgradeCount |-> 0, maxPurchases |-> 1,
                          countIsString |-> FALSE]>>],
         [isPurchased |-> FALSE, facilityPrice |-> 150, upgrades |-> <<>>],
         [isPurchased |-> FALSE, facilityPrice |-> 0, upgrades |-> <<>>]>>
  /\ minorFacilitiesSlots =
       [n \in 1..6 |-> [slotNumber |-> n, facilityName |-> IF n = 2 THEN "Bar" ELSE "",
                        enabled |-> n < 5]]
  /\ \E d \in InitialDeposits :
       manna = <<[id |-> 1, amount |-> d[1], description |-> Description("deposit", 0, 0, "")],
                 [id |-> 2, amount |-> d[2], description |-> Description("deposit", 0, 0, "")]>>
  /\ pilots = [p \in {"p1", "p2"} |->
                 [personalTransactions |-> IF p = "p1" THEN <<1>> ELSE <<2>>,
                  reserves |-> <<>>, active |-> TRUE, relatedJobs |-> <<>>]]
  /\ reserves = <<[id |-> "ra", price |-> 80]>>
  /\ storeConfig = [currentStock |-> <<"ra">>,
                    resupplyItems |-> <<[id |-> "repair", price |-> 60, enabled |-> TRUE],
                                        [id |-> "off", price |-> 60, enabled |-> FALSE]>>]
  /\ \E m \in InitialModifiers : settings = [facilityCostModifier |-> m]
  /\ locks = {}
  /\ req = [r \in Reqs |-> Idle]
  /\ nextId = 3
  /\ last = NoRun
  /\ sseClients = <<>>
  /\ sseBroken = {}
  /\ sseDropped = {}
  /\ sseClosed = {}
  /\ sseLog = NoBroadcast
  /\ factions = <<[id |-> 21, standing |-> 2, jobsCompletedOffset |-> 3,
                   jobsFailedOffset |-> 1]>>
  /\ jobs = <<[id |-> 11, state |-> "Complete", factionId |-> 21],
               [id |-> 12, state |-> "Pending", factionId |-> 21]>>
  /\ served = 0

Init ==
  /\ InitState
  /\ call = NoCall

\* ---------------------------------------------------------------- FileMutex

\* mutation: the loop that tests the lock is skipped
acquireOutcomeNoWait(held, elapsed) == "acquired"

\* one pass of acquire's loop: the test of the lock, then the test of the clock
acquireOutcome(held, elapsed) ==
  IF ~held THEN "acquired"
  ELSE IF elapsed >= timeoutMs THEN "timeout"
  ELSE "sleep"

\* release(key): this.locks.delete(key)
release(ls, key) == ls \ {key}

\* mutation: the release is the last statement of the try block, not a finally
afterCriticalReleaseOnSuccess(ls, key, reason) ==
  IF reason = "ok" THEN release(ls, key) ELSE ls

\* the handler's `finally { fileMutex.release(key) }`, whatever the try block did
afterCritical(ls, key, reason) == release(ls, key)

\* mutation: acquire is awaited inside the try block, so the finally runs
afterTimeoutReleases(ls, key) == release(ls, key)

\* acquire is awaited before the try block: when it throws, no finally runs
afterTimeout(ls, key) == ls

\* ------------------------------------------------------ the critical section

\* the positions of effects at which a write can throw; 0: no write throws
FailPoints(effects) == {0} \cup {i \in 1..Len(effects) : effects[i].op = "write"}

\* the effects that took place when the write at position f threw
executed(effects, f) == IF f = 0 THEN effects ELSE SubSeq(effects, 1, f - 1)

written(trace, collection) == \E i \in 1..Len(trace) : trace[i] = W(collection)

\* what the try block did, given the handler's decision h and the effects that ran
Commit(key, in, h, trace, reason, status, held) ==
  /\ coreMajorFacilities' = IF written(trace, "coreMajorFacilities")
                            THEN h.new.coreMajorFacilities ELSE coreMajorFacilities
  /\ minorFacilitiesSlots' = IF written(trace, "minorFacilitiesSlots")
                             THEN h.new.minorFacilitiesSlots ELSE minorFacilitiesSlots
  /\ manna' = IF written(trace, "manna") THEN h.new.manna ELSE manna
  /\ pilots' = IF written(trace, "pilots") THEN h.new.pilots ELSE pilots
  /\ storeConfig' = IF written(trace, "storeConfig") THEN h.new.storeConfig ELSE storeConfig
  /\ UNCHANGED <<reserves, settings>>
  /\ nextId' = IF h.reason = "ok" THEN nextId + 1 ELSE nextId
  /\ locks' = afterCritical(held, key, reason)
  /\ last' = [key |-> key, input |-> in, reason |-> reason, status |-> status,
              trace |-> trace]

\* the try/finally block of the handler behind key, from the first validation
\* to the release, run with the lock table held
HandlerRun(key, in, held) ==
  LET h == Handle(key, in) IN
  IF h.reason # "ok"
  THEN Commit(key, in, h, <<>>, h.reason, h.status, held)
  ELSE \E f \in FailPoints(h.effects) :
         IF f = 0
         THEN Commit(key, in, h, h.effects, "ok", h.status, held)
         ELSE \E st \in UnhandledRejectionStatus :
                Commit(key, in, h, executed(h.effects, f), "storage_error", st, held)

\* ------------------------------------------- Spec: the event loop as it runs

\* one request, from its arrival to its response: acquire finds the lock free
\* and its continuation, the try/finally block, runs before any other task
Serve(key, in) ==
  /\ last = NoRun
  /\ Handle(key, in).reason = "ok" => nextId <= MaxTx
  /\ acquireOutcome(key \in locks, 0) = "acquired"
  /\ HandlerRun(key, in, locks \cup {key})
  /\ UNCHANGED <<req, others>>

\* the record of the finished run is dropped before the next request is served
\* (last is an observation of the run, not a state of the program)
Forget ==
  /\ last # NoRun
  /\ last' = NoRun
  /\ UNCHANGED <<collections, locks, req, nextId, others>>

Next ==
  \/ \E key \in LockKeys : \E in \in Inputs(key) : Serve(key, in)
  \/ Forget

Spec == Init /\ [][Next]_vars

\* ------------------------------- SpecContended: FileMutex under contention

resultOf(reason) ==
  CASE reason = "ok" -> "success"
    [] reason = "already_purchased" -> "already_purchased"
    [] reason = "storage_error" -> "storage_error"
    [] reason = "lock_timeout" -> "timeout"
    [] OTHER -> "rejected"

\* the payloads of the requests that contend
ContendedInputs(key) ==
  {in \in Inputs(key) :
     /\ in.expensePilots \in {<<>>, <<"p1">>, <<"p1", "p2">>}
     /\ in.index \in {0, 1} /\ in.upgradeIndex = 0
     /\ in.slotNumber \in {0, 1, 5}
     /\ in.facilityName \in {"", "Gym"}
     /\ in.itemId \in {"", "ra"} /\ in.assignee \in {"", "p2"}}

\* acquire(key) as called or resumed by request r, elapsed ms after it started
AcquireStep(r, key, in, ok, elapsed) ==
  LET outcome == acquireOutcome(key \in locks, elapsed)
      me == [pc |-> "idle", key |-> key, input |-> in, elapsed |-> elapsed,
             result |-> "none", status |-> 0, okAtArrival |-> ok] IN
  /\ UNCHANGED <<collections, nextId, others>>
  /\ CASE outcome = "acquired" ->
            /\ locks' = locks \cup {key}
            /\ req' = [req EXCEPT ![r] = [me EXCEPT !.pc = "acquired", !.elapsed = 0]]
            /\ UNCHANGED last
       [] outcome = "sleep" ->
            /\ req' = [req EXCEPT ![r] = [me EXCEPT !.pc = "waiting"]]
            /\ UNCHANGED <<locks, last>>
       [] outcome = "timeout" ->
            \E st \in UnhandledRejectionStatus :
              /\ locks' = afterTimeout(locks, key)
              /\ req' = [req EXCEPT ![r] = [me EXCEPT !.pc = "done", !.elapsed = 0,
                                                      !.result = "timeout",
                                                      !.status = st]]
              /\ last' = [key |-> key, input |-> in, reason |-> "lock_timeout",
                          status |-> st, trace |-> <<>>]

\* a request reaches a locked endpoint and calls acquire
Arrive(r, key, in) ==
  /\ req[r].pc = "idle"
  /\ AcquireStep(r, key, in, Handle(key, in).reason = "ok", 0)

\* the setTimeout of a sleeping acquire fires
Poll(r) ==
  /\ req[r].pc = "waiting"
  /\ AcquireStep(r, req[r].key, req[r].input, req[r].okAtArrival, req[r].elapsed)

\* time passes for every sleeping acquire
Tick ==
  /\ \E r \in Reqs : req[r].pc = "waiting" /\ req[r].elapsed < timeoutMs
  /\ req' = [r \in Reqs |->
               IF req[r].pc = "waiting"
               THEN [req[r] EXCEPT !.elapsed = IF @ + TickMs > timeoutMs THEN timeoutMs
                                               ELSE @ + TickMs]
               ELSE req[r]]
  /\ UNCHANGED <<collections, locks, nextId, last, others>>

\* the continuation of a successful acquire: the try/finally block
Critical(r) ==
  /\ req[r].pc = "acquired"
  /\ HandlerRun(req[r].key, req[r].input, locks)
  /\ req' = [req EXCEPT ![r] = [@ EXCEPT !.pc = "done",
                                         !.result = resultOf(last'.reason),
                                         !.status = last'.status]]
  /\ UNCHANGED others

NextContended ==
  \/ \E r \in Reqs, key \in LockKeys : \E in \in ContendedInputs(key) : Arrive(r, key, in)
  \/ \E r \in Reqs : Poll(r)
  \/ Tick
  \/ \E r \in Reqs : Critical(r)

SpecContended == Init /\ [][NextContended]_vars

\* ------------------------------------------ SpecBroadcast: the SSE fan-out

\* the response objects of GET /api/sse
SseResponses == {"s1", "s2", "s3"}

\* the event types the model broadcasts
EventTypes == {"manna", "pilots"}

Range(seq) == {seq[i] : i \in 1..Len(seq)}

RECURSIVE writeEach(_, _)
\* sseClients.forEach(client => { try { client.write(message) }
\*                                catch (err) { sseClients.delete(client) } })
writeEach(todo, broken) ==
  IF todo = <<>> THEN [kept |-> <<>>, attempted |-> {}, delivered |-> {}]
  ELSE LET client == Head(todo)
           rest == writeEach(Tail(todo), broken)
       IN IF client \in broken
          THEN [rest EXCEPT !.attempted = @ \cup {client}]
          ELSE [kept |-> <<client>> \o rest.kept,
                attempted |-> rest.attempted \cup {client},
                delivered |-> rest.delivered \cup {client}]

\* mutation: no try/catch around client.write: the first write that throws
\* ends the forEach and the error reaches the caller
broadcastSSEUncaught(clients, broken, eventType) ==
  LET bad == {i \in 1..Len(clients) : clients[i] \in broken}
      first == IF bad = {} THEN Len(clients) + 1 ELSE CHOOSE i \in bad : \A j \in bad : i <= j
  IN [clients |-> clients,
      attempted |-> {clients[i] : i \in {j \in 1..Len(clients) : j <= first}},
      delivered |-> {clients[i] : i \in {j \in 1..Len(clients) : j < first}},
      threw |-> bad # {}]

broadcastSSE(clients, broken, eventType) ==
  LET r == writeEach(clients, broken)
  IN [clients |-> r.kept, attempted |-> r.attempted, delivered |-> r.delivered,
      threw |-> FALSE]

\* GET /api/sse: a new response object joins the set
SseConnect(c) ==
  /\ c \notin Range(sseClients) \cup sseDropped \cup sseClosed
  /\ sseClients' = Append(sseClients, c)
  /\ UNCHANGED <<lockedState, adminData, call, sseBroken, sseDropped, sseClosed,
                 sseLog>>

\* req.on('close'): the response leaves the set
SseClose(c) ==
  /\ c \in Range(sseClients)
  /\ sseClients' = SelectSeq(sseClients, LAMBDA x : x # c)
  /\ sseClosed' = sseClosed \cup {c}
  /\ UNCHANGED <<lockedState, adminData, call, sseBroken, sseDropped, sseLog>>

\* the stream of a connected response gets into a state where write() throws
SseBreak(c) ==
  /\ c \in Range(sseClients) \ sseBroken
  /\ sseBroken' = sseBroken \cup {c}
  /\ UNCHANGED <<lockedState, adminData, call, sseClients, sseDropped, sseClosed,
                 sseLog>>

\* some handler calls broadcastSSE(eventType, data)
Broadcast(eventType) ==
  /\ sseLog.n < MaxBroadcasts
  /\ LET r == broadcastSSE(sseClients, sseBroken, eventType)
     IN /\ sseClients' = r.clients
        /\ sseDropped' = sseDropped \cup (Range(sseClients) \ Range(r.clients))
        /\ sseLog' = [n |-> sseLog.n + 1, eventType |-> eventType,
                      attempted |-> r.attempted, delivered |-> r.delivered,
                      threw |-> r.threw]
  /\ UNCHANGED <<lockedState, adminData, call, sseBroken, sseClosed>>

NextBroadcast ==
  \/ \E c \in SseResponses : SseConnect(c)
  \/ \E c \in SseResponses : SseClose(c)
  \/ \E c \in SseResponses : SseBreak(c)
  \/ \E eventType \in EventTypes : Broadcast(eventType)

SpecBroadcast == Init /\ [][NextBroadcast]_vars

\* ------------------------------- SpecBalance: calculatePilotBalance(P, L)

\* longest personalTransactions and longest ledger handed to the helper
MaxRefs == 3
MaxLedger == 2

\* transaction ids: 1 and 2 may be in the ledger, 3 never is
BalanceIds == {1, 2, 3}
LedgerIds == {1, 2}
BalanceAmounts == {-300, 100}

SeqsUpTo(S, n) == UNION {[1..k -> S] : k \in 0..n}

BalanceLedgers ==
  SeqsUpTo([id : LedgerIds, amount : BalanceAmounts], MaxLedger)

\* the server after start-up, and the arguments of one call of the helper
InitBalance ==
  /\ InitState
  /\ \E refs \in SeqsUpTo(BalanceIds, MaxRefs), ledger \in BalanceLedgers :
       call = [fn |-> "calculatePilotBalance", done |-> FALSE,
               pilot |-> [personalTransactions |-> refs], transactions |-> ledger,
               result |-> 0]

\* helpers.calculatePilotBalance(pilot, manna.transactions) returns
EvalBalance ==
  /\ call.fn = "calculatePilotBalance"
  /\ ~call.done
  /\ call' = [call EXCEPT !.done = TRUE,
                          !.result = calculatePilotBalance(call.pilot, call.transactions)]
  /\ UNCHANGED <<lockedState, adminData, sseClients, sseBroken, sseDropped, sseClosed, sseLog>>

NextBalance == EvalBalance

SpecBalance == InitBalance /\ [][NextBalance]_vars

\* ------------- SpecFeed: getActivePilotBalances, getDeduplicatedTransactionHistory

\* longest personalTransactions of a pilot handed to the two helpers
MaxFeedRefs == 2

FeedIds == {1, 2}

\* the pilots argument: callsigns A and B, each active or not
FeedPilots ==
  {<<[callsign |-> "A", active |-> a1, personalTransactions |-> r1],
     [callsign |-> "B", active |-> a2, personalTransactions |-> r2]>> :
     a1 \in BOOLEAN, a2 \in BOOLEAN,
     r1 \in SeqsUpTo(FeedIds, MaxFeedRefs), r2 \in SeqsUpTo(FeedIds, MaxFeedRefs)}

FeedLedgers ==
  {<<>>, <<[id |-> 1, amount |-> -300, date |-> 1]>>,
   <<[id |-> 1, amount |-> -300, date |-> 1], [id |-> 2, amount |-> 100, date |-> 2]>>}

\* mutation: the inactive pilots are kept
activePilotsUnfiltered(ps) == ps

\* pilots.filter(pilot => pilot.active)
activePilots(ps) == SelectSeq(ps, LAMBDA pilot : pilot.active)

\* pilots.filter(active).map(pilot => ({pilot, balance}))
getActivePilotBalances(ps, transactions) ==
  LET act == activePilots(ps)
  IN [i \in 1..Len(act) |->
        [callsign |-> act[i].callsign,
         balance |-> calculatePilotBalance(act[i], transactions)]]

RECURSIVE concatRefs(_)
\* the (pilot, txnId) pairs in the order the two nested forEach visit them
concatRefs(act) ==
  IF act = <<>> THEN <<>>
  ELSE [i \in 1..Len(Head(act).personalTransactions) |->
          [callsign |-> Head(act).callsign, txnId |-> Head(act).personalTransactions[i]]]
       \o concatRefs(Tail(act))

RECURSIVE uniqueIds(_, _)
\* Object.keys(transactionPilotMap): each id once, in order of first insertion
uniqueIds(refs, seen) ==
  IF refs = <<>> THEN <<>>
  ELSE IF Head(refs).txnId \in seen THEN uniqueIds(Tail(refs), seen)
  ELSE <<Head(refs).txnId>> \o uniqueIds(Tail(refs), seen \cup {Head(refs).txnId})

\* transactionMap[txnId]: the last ledger entry with that id, as an index, 0 if none
ledgerIndexOf(transactions, txnId) ==
  LET at == {i \in 1..Len(transactions) : transactions[i].id = txnId}
  IN IF at = {} THEN 0 ELSE CHOOSE i \in at : \A j \in at : j <= i

RECURSIVE insertNewestFirst(_, _)
\* row placed behind the rows of sorted that are as new or newer
insertNewestFirst(sorted, row) ==
  IF sorted = <<>> THEN <<row>>
  ELSE IF Head(sorted).date >= row.date
  THEN <<Head(sorted)>> \o insertNewestFirst(Tail(sorted), row)
  ELSE <<row>> \o sorted

RECURSIVE sortNewestFirst(_)
\* rows.sort((a, b) => new Date(b.date) - new Date(a.date)): a stable sort,
\* dates being numbers here
sortNewestFirst(rows) ==
  IF rows = <<>> THEN <<>>
  ELSE insertNewestFirst(sortNewestFirst(SubSeq(rows, 1, Len(rows) - 1)), rows[Len(rows)])

\* getDeduplicatedTransactionHistory(pilots, transactions, 0)
getDeduplicatedTransactionHistory(ps, transactions) ==
  LET refs == concatRefs(activePilots(ps))
      ids == SelectSeq(uniqueIds(refs, {}),
                       LAMBDA txnId : ledgerIndexOf(transactions, txnId) # 0)
  IN sortNewestFirst(
       [k \in 1..Len(ids) |->
          LET transaction == transactions[ledgerIndexOf(transactions, ids[k])]
              relatedPilots == SelectSeq(refs, LAMBDA ref : ref.txnId = ids[k])
          IN [id |-> transaction.id, amount |-> transaction.amount,
              date |-> transaction.date,
              relatedPilotCallsigns |->
                [i \in 1..Len(relatedPilots) |-> relatedPilots[i].callsign],
              totalAmount |-> transaction.amount * Len(relatedPilots)]])

InitFeed ==
  /\ InitState
  /\ \E ps \in FeedPilots, ledger \in FeedLedgers :
       call = [fn |-> "overview", done |-> FALSE, pilots |-> ps, transactions |-> ledger,
               balances |-> <<>>, history |-> <<>>]

\* GET /client/overview computes the balances and the feed it renders
EvalFeed ==
  /\ call.fn = "overview"
  /\ ~call.done
  /\ call' = [call EXCEPT
                !.done = TRUE,
                !.balances = getActivePilotBalances(call.pilots, call.transactions),
                !.history = getDeduplicatedTransactionHistory(call.pilots,
                                                              call.transactions)]
  /\ UNCHANGED <<lockedState, adminData, sseClients, sseBroken, sseDropped, sseClosed, sseLog>>

NextFeed == EvalFeed

SpecFeed == InitFeed /\ [][NextFeed]_vars

\* --------------------------- SpecCost: the two applyFacilityCostModifier

\* the numeric prices and modifiers handed to the two functions
CostPrices ==
  {0, 25, 50, 75, 100, 123, 125, 150, 200, 250, 500, 625, 1000, 1234, 5000, 99999}
CostModifiers ==
  {-500, -101, -100, -90, -80, -55, -30, 0, 15, 25, 40, 150, 300, 350, 500}

CostPriceInputs ==
  {Num(n) : n \in CostPrices \cup {-1, -50}} \cup {NumericString(1000), Null} \cup NonNumeric
CostModifierInputs ==
  {Num(n) : n \in CostModifiers} \cup {NumericString(40), Null} \cup NonNumeric

InitCost ==
  /\ InitState
  /\ \E basePrice \in CostPriceInputs, modifier \in CostModifierInputs :
       call = [fn |-> "applyFacilityCostModifier", done |-> FALSE,
               basePrice |-> basePrice, modifier |-> modifier, server |-> 0, client |-> 0]

\* the server computes the charge, the browser computes the preview
EvalCost ==
  /\ call.fn = "applyFacilityCostModifier"
  /\ ~call.done
  /\ call' = [call EXCEPT
                !.done = TRUE,
                !.server = serverApplyFacilityCostModifier(call.basePrice, call.modifier),
                !.client = clientApplyFacilityCostModifier(call.basePrice, call.modifier)]
  /\ UNCHANGED <<lockedState, adminData, sseClients, sseBroken, sseDropped, sseClosed, sseLog>>

NextCost == EvalCost

SpecCost == InitCost /\ [][NextCost]_vars

\* ------------------------------------- the admin endpoints: shared steps

JOB_STATES == <<"Pending", "Active", "Complete", "Failed", "Ignored">>
DEFAULT_JOB_STATE == "Pending"

\* job.factionId of a job without a faction ('' in the code)
NoFaction == 0

\* the files of uploadDir
uploadDir == {"ok.svg"}

\* an array in a request body: sent as an array, as the JSON text of an
\* array, as text JSON.parse throws on, or not sent at all
Arr(ids) == [fmt |-> "array", ids |-> ids]
Json(ids) == [fmt |-> "json", ids |-> ids]
NotJson == [fmt |-> "text", ids |-> <<>>]
NotSent == [fmt |-> "undefined", ids |-> <<>>]

\* the body and the route parameters of an admin request
AdminIn0 ==
  [id |-> 0, pilotId |-> "", reserveId |-> "", state |-> "", factionId |-> NoFaction,
   emblem |-> "", title |-> "T", brief |-> "B", standing |-> Num(2),
   jobsCompletedOffset |-> Num(0), jobsFailedOffset |-> Num(0), amount |-> Num(0),
   description |-> "d", date |-> "d", pilotIds |-> NotSent, relatedJobs |-> NotSent,
   personalTransactions |-> NotSent, name |-> "N", callsign |-> "C", ll |-> Num(1),
   personalOperationProgress |-> Num(0), active |-> TRUE, rank |-> Num(1),
   price |-> Num(0), reserves |-> NotSent, targetPilotId |-> "", currentStock |-> NotSent,
   resupplyItems |-> NotSent, reserveIds |-> NotSent, removeAll |-> FALSE, random |-> 1,
   index |-> 0, upgradeIndex |-> 0, upgradeCount |-> Num(0), isPurchased |-> FALSE,
   slotNumber |-> 0, facilityName |-> "", enabled |-> FALSE, facilities |-> NotSent,
   slots |-> NotSent]

\* what a handler reads at its start
AdminCurrent ==
  [jobs |-> jobs, factions |-> factions, manna |-> manna, pilots |-> pilots,
   reserves |-> reserves, storeConfig |-> storeConfig,
   coreMajorFacilities |-> coreMajorFacilities,
   minorFacilitiesSlots |-> minorFacilitiesSlots, settings |-> settings]

\* an early `return res.status(status).json({success: false, ...})`
AdminReject(reason, status) ==
  [reason |-> reason, status |-> status, new |-> AdminCurrent, effects |-> <<>>,
   generated |-> 0]

\* the values a handler saves, its writes and broadcasts in order, and the
\* number of generateId() calls it made
AdminAccept(new, effects, generated) ==
  [reason |-> "ok", status |-> 200, new |-> new, effects |-> effects,
   generated |-> generated]

\* parseInt(x)
parseInt(x) ==
  IF x.t \in {"number", "numeric string"} THEN [nan |-> FALSE, v |-> x.v]
  ELSE [nan |-> TRUE, v |-> 0]

\* parseInt(x) || 0
parseIntOrZero(x) == IF parseInt(x).nan THEN 0 ELSE parseInt(x).v

\* helpers.isSafeEmblemFilename(filename): a base name matching SAFE_EMBLEM_PATTERN
isSafeEmblemFilename(filename) == filename \in {"ok.svg", "gone.svg"}

\* helpers.validateEmblem(emblem, uploadDir)
validateEmblem(emblem) ==
  IF emblem = "" THEN TRUE
  ELSE IF ~isSafeEmblemFilename(emblem) THEN FALSE
  ELSE emblem \in uploadDir

\* helpers.validateRequiredString(value, fieldName)
validateRequiredString(value) ==
  [valid |-> trim(value) # "", value |-> trim(value)]

\* helpers.validateInteger(value, fieldName, min, max)
validateInteger(value, min, max) ==
  LET parsed == parseInt(value) IN
  IF parsed.nan THEN [valid |-> FALSE, value |-> 0]
  ELSE IF parsed.v < min THEN [valid |-> FALSE, value |-> 0]
  ELSE IF parsed.v > max THEN [valid |-> FALSE, value |-> 0]
  ELSE [valid |-> TRUE, value |-> parsed.v]

\* mutation: a state outside JOB_STATES is accepted as it is
validateJobStateUnchecked(state) ==
  IF state = "" THEN [valid |-> TRUE, value |-> DEFAULT_JOB_STATE]
  ELSE [valid |-> TRUE, value |-> state]

\* helpers.validateJobState(state)
validateJobState(state) ==
  IF state = "" THEN [valid |-> TRUE, value |-> DEFAULT_JOB_STATE]
  ELSE IF state \notin Range(JOB_STATES) THEN [valid |-> FALSE, value |-> state]
  ELSE [valid |-> TRUE, value |-> state]

\* helpers.validateFactionId(factionId, factions)
validateFactionId(factionId, fs) ==
  IF factionId = NoFaction THEN TRUE
  ELSE \E i \in 1..Len(fs) : fs[i].id = factionId

\* validateJobData(jobData, factions, uploadDir)
validateJobData(jobData, fs) ==
  IF ~validateEmblem(jobData.emblem) THEN [valid |-> FALSE, state |-> "", factionId |-> NoFaction]
  ELSE IF ~validateJobState(jobData.state).valid
  THEN [valid |-> FALSE, state |-> "", factionId |-> NoFaction]
  ELSE IF jobData.factionId # NoFaction /\ ~validateFactionId(jobData.factionId, fs)
  THEN [valid |-> FALSE, state |-> "", factionId |-> NoFaction]
  ELSE [valid |-> TRUE, state |-> validateJobState(jobData.state).value,
        factionId |-> jobData.factionId]

\* validateFactionData(factionData, uploadDir)
validateFactionData(factionData) ==
  IF ~validateRequiredString(factionData.title).valid THEN [valid |-> FALSE]
  ELSE IF ~validateRequiredString(factionData.brief).valid THEN [valid |-> FALSE]
  ELSE IF ~validateEmblem(factionData.emblem) THEN [valid |-> FALSE]
  ELSE IF ~validateInteger(factionData.standing, 0, 4).valid THEN [valid |-> FALSE]
  ELSE [valid |-> TRUE,
        standing |-> validateInteger(factionData.standing, 0, 4).value,
        jobsCompletedOffset |-> parseIntOrZero(factionData.jobsCompletedOffset),
        jobsFailedOffset |-> parseIntOrZero(factionData.jobsFailedOffset)]

\* array.findIndex(x => x.id === id), 1-based; 0 for -1
findIndex(seq, id) ==
  IF \E i \in 1..Len(seq) : seq[i].id = id
  THEN CHOOSE i \in 1..Len(seq) :
         /\ seq[i].id = id
         /\ \A j \in 1..(i - 1) : seq[j].id # id
  ELSE 0

\* array.filter(x => x.id !== id)
filterOut(seq, id) == SelectSeq(seq, LAMBDA x : x.id # id)

\* ----------------------------------------------------- the faction counts

\* mutation: the jobs of every faction are counted
calculateFactionJobCountsAnyFaction(factionId, js) ==
  [completed |-> Len(SelectSeq(js, LAMBDA job : job.state = "Complete")),
   failed |-> Len(SelectSeq(js, LAMBDA job : job.state = "Failed"))]

\* helpers.calculateFactionJobCounts(factionId, jobs)
calculateFactionJobCounts(factionId, js) ==
  LET factionJobs == SelectSeq(js, LAMBDA job : job.factionId = factionId) IN
  [completed |-> Len(SelectSeq(factionJobs, LAMBDA job : job.state = "Complete")),
   failed |-> Len(SelectSeq(factionJobs, LAMBDA job : job.state = "Failed"))]

\* helpers.enrichFactionWithJobCounts(faction, jobs)
enrichFactionWithJobCounts(faction, js) ==
  LET counts == calculateFactionJobCounts(faction.id, js) IN
  [id |-> faction.id, standing |-> faction.standing,
   jobsCompletedOffset |-> faction.jobsCompletedOffset,
   jobsFailedOffset |-> faction.jobsFailedOffset,
   jobsCompleted |-> counts.completed + faction.jobsCompletedOffset,
   jobsFailed |-> counts.failed + faction.jobsFailedOffset]

\* enrichAllFactions(factions, jobs)
enrichAllFactions(fs, js) ==
  [i \in 1..Len(fs) |-> enrichFactionWithJobCounts(fs[i], js)]

\* ------------------------------------------------------------ /api/jobs

\* POST /api/jobs
jobCreate(in) ==
  LET validation == validateJobData(in, factions) IN
  IF ~validation.valid THEN AdminReject("invalid_job", 400)
  ELSE AdminAccept([AdminCurrent EXCEPT
                      !.jobs = Append(jobs, [id |-> nextId, state |-> validation.state,
                                             factionId |-> validation.factionId])],
                   <<W("jobs"), B("jobs")>>, 1)

\* PUT /api/jobs/:id
jobUpdate(in) ==
  LET index == findIndex(jobs, in.id)
      validation == validateJobData(in, factions) IN
  IF index = 0 THEN AdminReject("not_found", 404)
  ELSE IF ~validation.valid THEN AdminReject("invalid_job", 400)
  ELSE AdminAccept([AdminCurrent EXCEPT
                      !.jobs[index] = [id |-> in.id, state |-> validation.state,
                                       factionId |-> validation.factionId]],
                   <<W("jobs"), B("jobs")>>, 0)

\* DELETE /api/jobs/:id
jobDelete(in) ==
  AdminAccept([AdminCurrent EXCEPT !.jobs = filterOut(jobs, in.id)],
              <<W("jobs"), B("jobs")>>, 0)

\* PUT /api/jobs/:id/state
jobSetState(in) ==
  LET index == findIndex(jobs, in.id)
      stateValidation == validateJobState(in.state) IN
  IF index = 0 THEN AdminReject("not_found", 404)
  ELSE IF ~stateValidation.valid THEN AdminReject("invalid_state", 400)
  ELSE AdminAccept([AdminCurrent EXCEPT !.jobs[index].state = stateValidation.value],
                   <<W("jobs"), B("jobs")>>, 0)

\* the updatedJobs of progress-all
progressedJobs(js) ==
  [i \in 1..Len(js) |->
     IF js[i].state = "Active" THEN [js[i] EXCEPT !.state = "Ignored"]
     ELSE IF js[i].state = "Pending" THEN [js[i] EXCEPT !.state = "Active"]
     ELSE js[i]]

\* the newlyActiveJobIds of progress-all
newlyActiveJobIds(js) ==
  LET pending == SelectSeq(js, LAMBDA job : job.state = "Pending")
  IN [i \in 1..Len(pending) |-> pending[i].id]

\* mutation: the ids are pushed on the array, no Set in between
addAllPushed(related, jobIds) == related \o jobIds

RECURSIVE addAll(_, _)
\* Array.from(set) after set.add(jobId) for every jobId, in order
addAll(related, jobIds) ==
  IF jobIds = <<>> THEN related
  ELSE addAll(IF Head(jobIds) \in Range(related) THEN related
              ELSE Append(related, Head(jobIds)),
              Tail(jobIds))

\* POST /api/jobs/progress-all
progressAll(in) ==
  LET ids == newlyActiveJobIds(jobs) IN
  AdminAccept([AdminCurrent EXCEPT
                 !.jobs = progressedJobs(jobs),
                 !.pilots = [p \in DOMAIN pilots |->
                               IF pilots[p].active /\ Len(ids) > 0
                               THEN [pilots[p] EXCEPT !.relatedJobs = addAll(<<>>, @ \o ids)]
                               ELSE pilots[p]]],
              <<W("jobs"), W("pilots"), B("jobs"), B("pilots")>>, 0)

\* --------------------------------------------------------- /api/factions

\* POST /api/factions
factionCreate(in) ==
  LET validation == validateFactionData(in) IN
  IF ~validation.valid THEN AdminReject("invalid_faction", 400)
  ELSE AdminAccept([AdminCurrent EXCEPT
                      !.factions = Append(factions,
                         [id |-> nextId, standing |-> validation.standing,
                          jobsCompletedOffset |-> validation.jobsCompletedOffset,
                          jobsFailedOffset |-> validation.jobsFailedOffset])],
                   <<W("factions"), B("factions")>>, 1)

\* PUT /api/factions/:id
factionUpdate(in) ==
  LET index == findIndex(factions, in.id)
      validation == validateFactionData(in) IN
  IF index = 0 THEN AdminReject("not_found", 404)
  ELSE IF ~validation.valid THEN AdminReject("invalid_faction", 400)
  ELSE AdminAccept([AdminCurrent EXCEPT
                      !.factions[index] =
                         [id |-> in.id, standing |-> validation.standing,
                          jobsCompletedOffset |-> validation.jobsCompletedOffset,
                          jobsFailedOffset |-> validation.jobsFailedOffset]],
                   <<W("factions"), B("factions")>>, 0)

\* DELETE /api/factions/:id
factionDelete(in) ==
  AdminAccept([AdminCurrent EXCEPT !.factions = filterOut(factions, in.id)],
              <<W("factions"), B("factions")>>, 0)

\* ------------------------------------------------ /api/manna/transaction

\* Array.isArray(x) ? x : JSON.parse(x)
parseArray(x) ==
  IF x.fmt \in {"array", "json"} THEN [ok |-> TRUE, ids |-> x.ids]
  ELSE [ok |-> FALSE, ids |-> <<>>]

\* mutation: the inactive pilots are not filtered out
activePilotIdsEveryPilot(ps) == DOMAIN ps

\* pilots.filter(p => p.active).map(p => p.id)
activePilotIds(ps) == {p \in DOMAIN ps : ps[p].active}

\* pilotIds.filter(id => !validPilotIds.includes(id))
invalidPilotIds(pilotIds, ps) == {i \in 1..Len(pilotIds) : pilotIds[i] \notin DOMAIN ps}

\* mutation: only the first occurrence of the id is taken out
withoutFirst(ids, transactionId) ==
  LET at == {i \in 1..Len(ids) : ids[i] = transactionId}
      first == CHOOSE i \in at : \A j \in at : i <= j
  IN IF at = {} THEN ids
     ELSE SubSeq(ids, 1, first - 1) \o SubSeq(ids, first + 1, Len(ids))

\* array.filter(id => id !== transactionId)
without(ids, transactionId) == SelectSeq(ids, LAMBDA id : id # transactionId)

\* mutation: the ledger is saved before the pilot ids are looked up
transactionCreateLedgerBeforePilotCheck(in) ==
  LET parsedAmount == parseInt(in.amount)
      sent == parseArray(in.pilotIds).ids
  IN
  IF parsedAmount.nan THEN AdminReject("invalid_amount", 400)
  ELSE IF parsedAmount.v = 0 THEN AdminReject("zero_amount", 400)
  ELSE IF trim(in.description) = "" THEN AdminReject("no_description", 400)
  ELSE [reason |-> IF invalidPilotIds(sent, pilots) # {} THEN "invalid_pilots" ELSE "ok",
        status |-> IF invalidPilotIds(sent, pilots) # {} THEN 400 ELSE 200,
        new |-> [AdminCurrent EXCEPT
                   !.manna = Append(manna, [id |-> nextId, amount |-> parsedAmount.v,
                                            description |-> Description("admin", 0, 0,
                                                              trim(in.description))])],
        effects |-> <<W("manna")>>,
        generated |-> 1]

\* POST /api/manna/transaction
transactionCreate(in) ==
  LET parsedAmount == parseInt(in.amount)
      sent == parseArray(in.pilotIds).ids
      pilotIds == IF Len(sent) = 0 THEN activePilotIds(pilots) ELSE Range(sent)
      updatedPilots == pilotIds \cap DOMAIN pilots # {}
  IN
  IF parsedAmount.nan THEN AdminReject("invalid_amount", 400)
  ELSE IF parsedAmount.v = 0 THEN AdminReject("zero_amount", 400)
  ELSE IF trim(in.description) = "" THEN AdminReject("no_description", 400)
  ELSE IF Len(sent) # 0 /\ invalidPilotIds(sent, pilots) # {}
  THEN AdminReject("invalid_pilots", 400)
  ELSE AdminAccept(
         [AdminCurrent EXCEPT
            !.manna = Append(manna, [id |-> nextId, amount |-> parsedAmount.v,
                                     description |-> Description("admin", 0, 0,
                                                                 trim(in.description))]),
            !.pilots = [p \in DOMAIN pilots |->
                          IF p \in pilotIds
                          THEN [pilots[p] EXCEPT !.personalTransactions = Append(@, nextId)]
                          ELSE pilots[p]]],
         IF updatedPilots THEN <<W("manna"), W("pilots"), B("manna"), B("pilots")>>
         ELSE <<W("manna"), B("manna")>>,
         1)

\* if (isNaN(amount)) return 400 'Amount must be a valid number'
transactionUpdateAmountRefused(amount) == amount.nan

\* PUT /api/manna/transaction/:id
transactionUpdate(in) ==
  LET transactionIndex == findIndex(manna, in.id)
      amount == parseInt(in.amount) IN
  IF transactionIndex = 0 THEN AdminReject("not_found", 404)
  ELSE IF transactionUpdateAmountRefused(amount) THEN AdminReject("invalid_amount", 400)
  ELSE IF trim(in.description) = "" THEN AdminReject("no_description", 400)
  ELSE IF in.date = "" THEN AdminReject("no_date", 400)
  ELSE AdminAccept(
         [AdminCurrent EXCEPT
            !.manna[transactionIndex] =
               [id |-> in.id, amount |-> amount.v,
                description |-> Description("admin", 0, 0, trim(in.description))]],
         <<W("manna"), B("manna")>>, 0)

\* DELETE /api/manna/transaction/:id
\* mutation: the transaction leaves the ledger, the pilots keep their references
transactionDeleteLedgerOnly(in) ==
  IF findIndex(manna, in.id) = 0 THEN AdminReject("not_found", 404)
  ELSE AdminAccept([AdminCurrent EXCEPT !.manna = splice(manna, findIndex(manna, in.id))],
                   <<W("manna"), B("manna")>>, 0)

transactionDelete(in) ==
  LET transactionIndex == findIndex(manna, in.id)
      pilotsUpdated == \E p \in DOMAIN pilots : in.id \in Range(pilots[p].personalTransactions)
  IN
  IF transactionIndex = 0 THEN AdminReject("not_found", 404)
  ELSE AdminAccept(
         [AdminCurrent EXCEPT
            !.manna = splice(manna, transactionIndex),
            !.pilots = [p \in DOMAIN pilots |->
                          [pilots[p] EXCEPT !.personalTransactions = without(@, in.id)]]],
         IF pilotsUpdated THEN <<W("manna"), W("pilots"), B("pilots"), B("manna")>>
         ELSE <<W("manna"), B("manna")>>,
         0)

\* PUT /api/manna/transaction/:id/pilots
transactionSetPilots(in) ==
  LET parsed == parseArray(in.pilotIds)
      pilotIds == IF in.pilotIds.fmt = "undefined" THEN <<>> ELSE parsed.ids
  IN
  IF findIndex(manna, in.id) = 0 THEN AdminReject("not_found", 404)
  ELSE IF in.pilotIds.fmt # "undefined" /\ ~parsed.ok
  THEN AdminReject("invalid_format", 400)
  ELSE IF invalidPilotIds(pilotIds, pilots) # {} THEN AdminReject("invalid_pilots", 400)
  ELSE AdminAccept(
         [AdminCurrent EXCEPT
            !.pilots = [p \in DOMAIN pilots |->
                          [pilots[p] EXCEPT !.personalTransactions =
                             IF p \in Range(pilotIds)
                             THEN Append(without(@, in.id), in.id)
                             ELSE without(@, in.id)]]],
         <<W("pilots"), B("pilots"), B("manna")>>, 0)

\* ------------------------------------------------------------ /api/pilots

\* the id generateId() gives a new pilot
newPilotId == IF nextId = 3 THEN "p3" ELSE "p4"

\* helpers.validateTransactionIds(transactionIds, manna)
validateTransactionIds(transactionIds, transactions) ==
  IF Len(transactionIds) = 0 THEN TRUE
  ELSE LET existingTransactionIds == {transactions[i].id : i \in 1..Len(transactions)}
       IN {i \in 1..Len(transactionIds) :
             transactionIds[i] \notin existingTransactionIds} = {}

\* an entry of a reserves array in a request body: a UUID string (the legacy
\* format) or an object with reserveId and deploymentStatus
Legacy(reserveId) == [type |-> "string", reserveId |-> reserveId, deploymentStatus |-> ""]
Held(reserveId, deploymentStatus) ==
  [type |-> "object", reserveId |-> reserveId, deploymentStatus |-> deploymentStatus]

\* helpers.validateDeploymentStatus(status)
validateDeploymentStatus(status) == status \in {"In Reserve", "Deployed", "Expended"}

\* helpers.validateReserveIds(reserveIds, reserves)
validateReserveIds(reserveIds, rs) ==
  LET existingReserveIds == {rs[i].id : i \in 1..Len(rs)} IN
  {i \in 1..Len(reserveIds) : reserveIds[i] \notin existingReserveIds} = {}

\* helpers.validateReserveObject(reserveObj, reserves)
validateReserveObject(reserveObj, rs) ==
  /\ reserveObj.type = "object"
  /\ reserveObj.reserveId # ""
  /\ reserveObj.reserveId \in {rs[i].id : i \in 1..Len(rs)}
  /\ validateDeploymentStatus(reserveObj.deploymentStatus)

\* mutation: the entries are taken as they come, existing reserve or not
validatePilotReservesUnchecked(pilotReserves, rs) ==
  [valid |-> TRUE,
   value |-> [i \in 1..Len(pilotReserves) |->
                [reserveId |-> pilotReserves[i].reserveId,
                 deploymentStatus |-> "In Reserve"]]]

\* helpers.validatePilotReserves(pilotReserves, reserves)
validatePilotReserves(pilotReserves, rs) ==
  LET invalid == [valid |-> FALSE, value |-> <<>>]
      \* what Set.has() is asked for each entry of a legacy array
      asIds == [i \in 1..Len(pilotReserves) |->
                  IF pilotReserves[i].type = "string" THEN pilotReserves[i].reserveId
                  ELSE "[object Object]"]
  IN
  IF Len(pilotReserves) = 0 THEN [valid |-> TRUE, value |-> <<>>]
  ELSE IF pilotReserves[1].type = "string"
  THEN IF ~validateReserveIds(asIds, rs) THEN invalid
       ELSE [valid |-> TRUE,
             value |-> [i \in 1..Len(pilotReserves) |->
                          [reserveId |-> pilotReserves[i].reserveId,
                           deploymentStatus |-> "In Reserve"]]]
  ELSE IF \E i \in 1..Len(pilotReserves) : ~validateReserveObject(pilotReserves[i], rs)
  THEN invalid
  ELSE [valid |-> TRUE,
        value |-> [i \in 1..Len(pilotReserves) |->
                     [reserveId |-> pilotReserves[i].reserveId,
                      deploymentStatus |-> pilotReserves[i].deploymentStatus]]]

\* validatePilotData(pilotData, manna, reserves)
validatePilotData(pilotData, transactions, rs) ==
  LET parsed == parseArray(pilotData.personalTransactions)
      provided == pilotData.personalTransactions.fmt # "undefined"
      reservesArray == parseArray(pilotData.reserves)
      reservesProvided == pilotData.reserves.fmt # "undefined"
      reserveValidation == validatePilotReserves(reservesArray.ids, rs)
      related == parseArray(pilotData.relatedJobs)
      relatedProvided == pilotData.relatedJobs.fmt # "undefined"
      invalid == [valid |-> FALSE, active |-> FALSE, personalTransactions |-> <<>>,
                  reserves |-> <<>>, relatedJobs |-> <<>>]
  IN
  IF ~validateRequiredString(pilotData.name).valid THEN invalid
  ELSE IF ~validateRequiredString(pilotData.callsign).valid THEN invalid
  ELSE IF ~validateInteger(pilotData.ll, 0, 12).valid THEN invalid
  ELSE IF ~validateInteger(pilotData.personalOperationProgress, 0, 3).valid THEN invalid
  ELSE IF relatedProvided /\ ~related.ok THEN invalid
  ELSE IF provided /\ ~parsed.ok THEN invalid
  ELSE IF provided /\ ~validateTransactionIds(parsed.ids, transactions) THEN invalid
  ELSE IF reservesProvided /\ ~reservesArray.ok THEN invalid
  ELSE IF reservesProvided /\ ~reserveValidation.valid THEN invalid
  ELSE [valid |-> TRUE, active |-> pilotData.active,
        personalTransactions |-> IF provided THEN parsed.ids ELSE <<>>,
        reserves |-> IF reservesProvided THEN reserveValidation.value ELSE <<>>,
        relatedJobs |-> IF relatedProvided THEN related.ids ELSE <<>>]

\* POST /api/pilots
pilotCreate(in) ==
  LET validation == validatePilotData(in, manna, reserves) IN
  IF ~validation.valid THEN AdminReject("invalid_pilot", 400)
  ELSE AdminAccept(
         [AdminCurrent EXCEPT
            !.pilots = [p \in DOMAIN pilots \cup {newPilotId} |->
                          IF p = newPilotId
                          THEN [personalTransactions |-> validation.personalTransactions,
                                reserves |-> validation.reserves,
                                active |-> validation.active, relatedJobs |-> <<>>]
                          ELSE pilots[p]]],
         <<W("pilots"), B("pilots")>>, 1)

\* PUT /api/pilots/:id
pilotUpdate(in) ==
  LET validation == validatePilotData(in, manna, reserves) IN
  IF in.pilotId \notin DOMAIN pilots THEN AdminReject("not_found", 404)
  ELSE IF ~validation.valid THEN AdminReject("invalid_pilot", 400)
  ELSE AdminAccept(
         [AdminCurrent EXCEPT
            !.pilots[in.pilotId] =
               [personalTransactions |-> validation.personalTransactions,
                reserves |-> validation.reserves, active |-> validation.active,
                relatedJobs |-> validation.relatedJobs]],
         <<W("pilots"), B("pilots")>>, 0)

\* DELETE /api/pilots/:id
pilotDelete(in) ==
  AdminAccept([AdminCurrent EXCEPT
                 !.pilots = [p \in DOMAIN pilots \ {in.pilotId} |-> pilots[p]]],
              <<W("pilots"), B("pilots")>>, 0)

\* PUT /api/pilots/:id/personal-transactions
pilotSetPersonalTransactions(in) ==
  LET parsed == parseArray(in.personalTransactions)
      provided == in.personalTransactions.fmt # "undefined"
  IN
  IF in.pilotId \notin DOMAIN pilots THEN AdminReject("not_found", 404)
  ELSE IF provided /\ ~parsed.ok THEN AdminReject("invalid_format", 400)
  ELSE AdminAccept(
         [AdminCurrent EXCEPT
            !.pilots[in.pilotId].personalTransactions =
               IF provided THEN parsed.ids ELSE <<>>],
         <<W("pilots"), B("pilots")>>, 0)

\* ---------------------------------------------------------- /api/reserves

\* helpers.validateReserveData(reserveData)
validateReserveData(reserveData) ==
  IF ~validateInteger(reserveData.rank, 1, 3).valid THEN [valid |-> FALSE, price |-> 0]
  ELSE IF ~validateRequiredString(reserveData.name).valid THEN [valid |-> FALSE, price |-> 0]
  ELSE IF parseInt(reserveData.price).nan \/ parseInt(reserveData.price).v < 0
  THEN [valid |-> FALSE, price |-> 0]
  ELSE [valid |-> TRUE, price |-> parseInt(reserveData.price).v]

\* PUT /api/reserves/:id
reserveUpdate(in) ==
  LET index == findIndex(reserves, in.reserveId)
      validation == validateReserveData(in) IN
  IF index = 0 THEN AdminReject("not_found", 404)
  ELSE IF ~validation.valid THEN AdminReject("invalid_reserve", 400)
  ELSE AdminAccept(
         [AdminCurrent EXCEPT
            !.reserves[index] = [id |-> reserves[index].id, price |-> validation.price]],
         <<W("reserves"), B("reserves")>>, 0)

\* pilots.some(pilot => pilot.reserves.some(r => r.reserveId === req.params.id))
inUseByPilot(ps, reserveId) ==
  \E p \in DOMAIN ps : \E i \in 1..Len(ps[p].reserves) : ps[p].reserves[i].reserveId = reserveId

\* DELETE /api/reserves/:id
reserveDelete(in) ==
  LET index == findIndex(reserves, in.reserveId)
      updatedStock == SelectSeq(storeConfig.currentStock, LAMBDA id : id # in.reserveId)
  IN
  IF index = 0 THEN AdminReject("not_found", 404)
  ELSE IF inUseByPilot(pilots, in.reserveId) THEN AdminReject("in_use", 409)
  ELSE AdminAccept(
         [AdminCurrent EXCEPT
            !.storeConfig.currentStock = updatedStock,
            !.reserves = splice(reserves, index)],
         IF Len(updatedStock) # Len(storeConfig.currentStock)
         THEN <<W("storeConfig"), B("store-config"), W("reserves"), B("reserves")>>
         ELSE <<W("reserves"), B("reserves")>>,
         0)

\* ------------------------------------- reserves, pilot reserves, the store

\* the id generateId() gives a new reserve
newReserveId == IF nextId = 3 THEN "r3" ELSE "r4"

\* POST /api/reserves
reserveCreate(in) ==
  LET validation == validateReserveData(in) IN
  IF ~validation.valid THEN AdminReject("invalid_reserve", 400)
  ELSE AdminAccept(
         [AdminCurrent EXCEPT
            !.reserves = Append(reserves, [id |-> newReserveId, price |-> validation.price])],
         <<W("reserves"), B("reserves")>>, 1)

\* (pilot.reserves || []).findIndex(r => r.reserveId === reserveId), from 1,
\* 0 when no entry has the id
heldIndex(held, reserveId) ==
  IF \E i \in 1..Len(held) : held[i].reserveId = reserveId
  THEN CHOOSE i \in 1..Len(held) :
         /\ held[i].reserveId = reserveId
         /\ \A j \in 1..(i - 1) : held[j].reserveId # reserveId
  ELSE 0

\* PUT /api/pilots/:id/reserves-management
reservesManagement(in) ==
  LET validation == validatePilotReserves(in.reserves.ids, reserves) IN
  IF in.pilotId \notin DOMAIN pilots THEN AdminReject("not_found", 404)
  ELSE IF in.reserves.fmt = "undefined" THEN AdminReject("reserves_required", 400)
  ELSE IF in.reserves.fmt # "array" THEN AdminReject("not_an_array", 400)
  ELSE IF ~validation.valid THEN AdminReject("invalid_reserves", 400)
  ELSE AdminAccept([AdminCurrent EXCEPT !.pilots[in.pilotId].reserves = validation.value],
                   <<W("pilots"), B("pilots")>>, 0)

\* POST /api/pilots/:pilotId/reserves/:reserveId/transfer
reserveTransfer(in) ==
  IF in.pilotId \notin DOMAIN pilots THEN AdminReject("not_found", 404)
  ELSE IF in.targetPilotId = "" THEN AdminReject("target_required", 400)
  ELSE IF in.targetPilotId \notin DOMAIN pilots THEN AdminReject("target_not_found", 404)
  ELSE IF in.targetPilotId = in.pilotId THEN AdminReject("same_pilot", 400)
  ELSE LET reserveIndex == heldIndex(pilots[in.pilotId].reserves, in.reserveId) IN
       IF reserveIndex = 0 THEN AdminReject("reserve_not_found", 404)
       ELSE AdminAccept(
              [AdminCurrent EXCEPT
                 !.pilots[in.pilotId].reserves = splice(@, reserveIndex),
                 !.pilots[in.targetPilotId].reserves =
                    Append(@, pilots[in.pilotId].reserves[reserveIndex])],
              <<W("pilots"), B("pilots")>>, 0)

\* DELETE /api/pilots/:pilotId/reserves/:reserveId
pilotReserveRemove(in) ==
  IF in.pilotId \notin DOMAIN pilots THEN AdminReject("not_found", 404)
  ELSE LET reserveIndex == heldIndex(pilots[in.pilotId].reserves, in.reserveId) IN
       IF reserveIndex = 0 THEN AdminReject("reserve_not_found", 404)
       ELSE AdminAccept(
              [AdminCurrent EXCEPT !.pilots[in.pilotId].reserves = splice(@, reserveIndex)],
              <<W("pilots"), B("pilots")>>, 0)

\* PUT /api/store-config
storeConfigUpdate(in) ==
  LET items == in.resupplyItems.ids IN
  IF in.resupplyItems.fmt # "undefined"
     /\ (in.resupplyItems.fmt # "array" \/ Len(items) # 3)
  THEN AdminReject("invalid_resupply_items", 400)
  ELSE IF in.resupplyItems.fmt # "undefined" /\ \E i \in 1..Len(items) : items[i].id = ""
  THEN AdminReject("invalid_resupply_item", 400)
  ELSE IF in.resupplyItems.fmt # "undefined" /\ \E i \in 1..Len(items) : items[i].price < 0
  THEN AdminReject("negative_price", 400)
  ELSE IF in.currentStock.fmt \notin {"undefined", "array"}
  THEN AdminReject("stock_not_an_array", 400)
  ELSE IF in.currentStock.fmt = "array" /\ ~validateReserveIds(in.currentStock.ids, reserves)
  THEN AdminReject("invalid_reserve_ids", 400)
  ELSE AdminAccept(
         [AdminCurrent EXCEPT
            !.storeConfig.resupplyItems =
               IF in.resupplyItems.fmt = "undefined" THEN @ ELSE items,
            !.storeConfig.currentStock =
               IF in.currentStock.fmt = "undefined" THEN @ ELSE in.currentStock.ids],
         <<W("storeConfig"), B("store-config")>>, 0)

\* POST /api/store-config/add-random with no filter: in.random stands for the
\* draw of Math.random()
storeAddRandom(in) ==
  IF Len(reserves) = 0 THEN AdminReject("no_match", 400)
  ELSE LET randomIndex == (in.random % Len(reserves)) + 1 IN
       AdminAccept(
         [AdminCurrent EXCEPT
            !.storeConfig.currentStock = Append(@, reserves[randomIndex].id)],
         <<W("storeConfig"), B("store-config")>>, 0)

\* POST /api/store-config/remove-stock
storeRemoveStock(in) ==
  LET reserveIds == in.reserveIds.ids
      stock == storeConfig.currentStock
  IN
  IF in.removeAll
  THEN IF in.reserveIds.fmt # "array" \/ Len(reserveIds) = 0
       THEN AdminReject("none_selected", 400)
       ELSE AdminAccept(
              [AdminCurrent EXCEPT
                 !.storeConfig.currentStock =
                    SelectSeq(stock, LAMBDA id : id \notin Range(reserveIds))],
              <<W("storeConfig"), B("store-config")>>, 0)
  ELSE IF in.reserveIds.fmt = "undefined"
          \/ (in.reserveIds.fmt = "array" /\ Len(reserveIds) = 0)
  THEN AdminReject("none_selected", 400)
  ELSE IF in.reserveIds.fmt # "array" \/ stockIndexOf(stock, reserveIds[1]) = 0
  THEN AdminReject("not_in_stock", 404)
  ELSE AdminAccept(
         [AdminCurrent EXCEPT
            !.storeConfig.currentStock = splice(stock, stockIndexOf(stock, reserveIds[1]))],
         <<W("storeConfig"), B("store-config")>>, 0)

\* ------------------------------------------- /api/facilities, admin side

\* FACILITY_COUNTS.TOTAL_CORE_MAJOR_COUNT, at the scale of the initial state
TOTAL_CORE_MAJOR_COUNT == 3

\* FACILITY_COUNTS.MINOR_SLOTS_COUNT
MINOR_SLOTS_COUNT == 6

\* validateInteger(value, fieldName, min) without a maximum
validAtLeast(value, min) == ~parseInt(value).nan /\ parseInt(value).v >= min

\* helpers.validateFacilityUpgrade(upgradeData)
validateFacilityUpgrade(upgradeData) ==
  /\ validateRequiredString(upgradeData.upgradeName).valid
  /\ validAtLeast(upgradeData.upgradePrice, 0)
  /\ validAtLeast(upgradeData.maxPurchases, 1)
  /\ validAtLeast(upgradeData.upgradeCount, 0)
  /\ parseInt(upgradeData.upgradeCount).v <= parseInt(upgradeData.maxPurchases).v

\* helpers.validateCoreMajorFacility(facilityData)
validateCoreMajorFacility(facilityData) ==
  /\ facilityData.type \in {"Core", "Major"}
  /\ validateRequiredString(facilityData.facilityName).valid
  /\ validAtLeast(facilityData.facilityPrice, 0)
  /\ \A i \in 1..Len(facilityData.upgrades) :
       validateFacilityUpgrade(facilityData.upgrades[i])

\* what JSON.stringify keeps of an entry of the request body: the values as
\* they were sent, a count sent as a string stays a string
storedFacility(facilityData) ==
  [isPurchased |-> facilityData.isPurchased,
   facilityPrice |-> facilityData.facilityPrice.v,
   upgrades |-> [i \in 1..Len(facilityData.upgrades) |->
                   [upgradePrice |-> facilityData.upgrades[i].upgradePrice.v,
                    upgradeCount |-> facilityData.upgrades[i].upgradeCount.v,
                    maxPurchases |-> facilityData.upgrades[i].maxPurchases.v,
                    countIsString |->
                      facilityData.upgrades[i].upgradeCount.t = "numeric string"]]]

\* PUT /api/facilities/core-major
coreMajorReplace(in) ==
  LET facilities == in.facilities.ids IN
  IF in.facilities.fmt # "array" \/ Len(facilities) # TOTAL_CORE_MAJOR_COUNT
  THEN AdminReject("wrong_count", 400)
  ELSE IF \E i \in 1..Len(facilities) : ~validateCoreMajorFacility(facilities[i])
  THEN AdminReject("invalid_facility", 400)
  ELSE AdminAccept(
         [AdminCurrent EXCEPT
            !.coreMajorFacilities =
               [i \in 1..Len(facilities) |-> storedFacility(facilities[i])]],
         <<W("coreMajorFacilities"), B("facilities-core-major")>>, 0)

\* helpers.validateMinorFacilitySlot(slotData)
validateMinorFacilitySlot(slotData) == validateInteger(slotData.slotNumber, 1, 6).valid

\* PUT /api/facilities/minor-slots
minorSlotsReplace(in) ==
  LET slots == in.slots.ids IN
  IF in.slots.fmt # "array" \/ Len(slots) # MINOR_SLOTS_COUNT
  THEN AdminReject("wrong_count", 400)
  ELSE IF \E i \in 1..Len(slots) : ~validateMinorFacilitySlot(slots[i])
  THEN AdminReject("invalid_slot", 400)
  ELSE AdminAccept(
         [AdminCurrent EXCEPT
            !.minorFacilitiesSlots =
               [i \in 1..Len(slots) |->
                  [slotNumber |-> slots[i].slotNumber.v,
                   facilityName |-> slots[i].facilityName,
                   enabled |-> slots[i].enabled]]],
         <<W("minorFacilitiesSlots"), B("facilities-minor-slots")>>, 0)

\* PATCH /api/facilities/core-major/:index/purchased
facilitySetPurchased(in) ==
  IF in.index < 0 \/ in.index >= Len(coreMajorFacilities)
  THEN AdminReject("invalid_index", 400)
  ELSE AdminAccept(
         [AdminCurrent EXCEPT !.coreMajorFacilities[in.index + 1].isPurchased = in.isPurchased],
         <<W("coreMajorFacilities"), B("facilities-core-major")>>, 0)

\* PATCH /api/facilities/core-major/:facilityIndex/upgrades/:upgradeIndex
upgradeSetCount(in) ==
  LET count == parseInt(in.upgradeCount) IN
  IF in.index < 0 \/ in.index >= Len(coreMajorFacilities)
  THEN AdminReject("invalid_index", 400)
  ELSE LET upgrades == coreMajorFacilities[in.index + 1].upgrades IN
  IF Len(upgrades) = 0 THEN AdminReject("no_upgrades", 400)
  ELSE IF in.upgradeIndex < 0 \/ in.upgradeIndex >= Len(upgrades)
  THEN AdminReject("invalid_upgrade_index", 400)
  ELSE IF count.nan \/ count.v < 0 \/ count.v > upgrades[in.upgradeIndex + 1].maxPurchases
  THEN AdminReject("invalid_count", 400)
  ELSE AdminAccept(
         [AdminCurrent EXCEPT
            !.coreMajorFacilities[in.index + 1].upgrades[in.upgradeIndex + 1] =
               [@ EXCEPT !.upgradeCount = count.v, !.countIsString = FALSE]],
         <<W("coreMajorFacilities"), B("facilities-core-major")>>, 0)

minorSlotsEffects == <<W("minorFacilitiesSlots"), B("facilities-minor-slots")>>

\* PUT /api/facilities/minor-slots/:slotNumber/assign
adminSlotAssign(in) ==
  LET slotIndex == slotIndexOf(minorFacilitiesSlots, in.slotNumber) IN
  IF slotIndex = 0 THEN AdminReject("invalid_slot", 400)
  ELSE IF ~minorFacilitiesSlots[slotIndex].enabled THEN AdminReject("slot_disabled", 400)
  ELSE IF trim(in.facilityName) = "" THEN AdminReject("name_required", 400)
  ELSE IF \E i \in 1..Len(minorFacilitiesSlots) :
            /\ minorFacilitiesSlots[i].slotNumber # in.slotNumber
            /\ minorFacilitiesSlots[i].facilityName = in.facilityName
  THEN AdminReject("name_in_use", 400)
  ELSE AdminAccept(
         [AdminCurrent EXCEPT
            !.minorFacilitiesSlots[slotIndex].facilityName = trim(in.facilityName)],
         minorSlotsEffects, 0)

\* DELETE /api/facilities/minor-slots/:slotNumber/clear
slotClear(in) ==
  LET slotIndex == slotIndexOf(minorFacilitiesSlots, in.slotNumber) IN
  IF slotIndex = 0 THEN AdminReject("invalid_slot", 400)
  ELSE AdminAccept([AdminCurrent EXCEPT !.minorFacilitiesSlots[slotIndex].facilityName = ""],
                   minorSlotsEffects, 0)

\* PATCH /api/facilities/minor-slots/:slotNumber/toggle-enabled
slotToggleEnabled(in) ==
  LET slotIndex == slotIndexOf(minorFacilitiesSlots, in.slotNumber) IN
  IF slotIndex = 0 THEN AdminReject("invalid_slot", 400)
  ELSE IF in.slotNumber < 5 THEN AdminReject("not_toggleable", 400)
  ELSE AdminAccept(
         [AdminCurrent EXCEPT
            !.minorFacilitiesSlots[slotIndex] =
               [@ EXCEPT !.enabled = in.enabled,
                         !.facilityName = IF in.enabled THEN @ ELSE ""]],
         minorSlotsEffects, 0)

\* DELETE /api/facilities/minor-slots/:slotNumber/demolish
slotDemolish(in) ==
  LET slotIndex == slotIndexOf(minorFacilitiesSlots, in.slotNumber) IN
  IF slotIndex = 0 THEN AdminReject("invalid_slot", 400)
  ELSE IF minorFacilitiesSlots[slotIndex].facilityName = ""
  THEN AdminReject("already_empty", 400)
  ELSE AdminAccept([AdminCurrent EXCEPT !.minorFacilitiesSlots[slotIndex].facilityName = ""],
                   minorSlotsEffects, 0)

\* ------------------------------------------ the admin endpoints as actions

sseState == <<sseClients, sseBroken, sseDropped, sseClosed, sseLog>>

\* the handler behind an admin route
AdminHandle(endpoint, in) ==
  CASE endpoint = "POST /api/jobs" -> jobCreate(in)
    [] endpoint = "PUT /api/jobs/:id" -> jobUpdate(in)
    [] endpoint = "DELETE /api/jobs/:id" -> jobDelete(in)
    [] endpoint = "PUT /api/jobs/:id/state" -> jobSetState(in)
    [] endpoint = "POST /api/jobs/progress-all" -> progressAll(in)
    [] endpoint = "POST /api/factions" -> factionCreate(in)
    [] endpoint = "PUT /api/factions/:id" -> factionUpdate(in)
    [] endpoint = "DELETE /api/factions/:id" -> factionDelete(in)
    [] endpoint = "POST /api/manna/transaction" -> transactionCreate(in)
    [] endpoint = "PUT /api/manna/transaction/:id" -> transactionUpdate(in)
    [] endpoint = "DELETE /api/manna/transaction/:id" -> transactionDelete(in)
    [] endpoint = "PUT /api/manna/transaction/:id/pilots" -> transactionSetPilots(in)
    [] endpoint = "POST /api/pilots" -> pilotCreate(in)
    [] endpoint = "PUT /api/pilots/:id" -> pilotUpdate(in)
    [] endpoint = "DELETE /api/pilots/:id" -> pilotDelete(in)
    [] endpoint = "PUT /api/pilots/:id/personal-transactions" ->
         pilotSetPersonalTransactions(in)
    [] endpoint = "PUT /api/reserves/:id" -> reserveUpdate(in)
    [] endpoint = "DELETE /api/reserves/:id" -> reserveDelete(in)
    [] endpoint = "POST /api/reserves" -> reserveCreate(in)
    [] endpoint = "PUT /api/pilots/:id/reserves-management" -> reservesManagement(in)
    [] endpoint = "POST /api/pilots/:pilotId/reserves/:reserveId/transfer" ->
         reserveTransfer(in)
    [] endpoint = "DELETE /api/pilots/:pilotId/reserves/:reserveId" ->
         pilotReserveRemove(in)
    [] endpoint = "PUT /api/store-config" -> storeConfigUpdate(in)
    [] endpoint = "POST /api/store-config/add-random" -> storeAddRandom(in)
    [] endpoint = "POST /api/store-config/remove-stock" -> storeRemoveStock(in)
    [] endpoint = "PUT /api/facilities/core-major" -> coreMajorReplace(in)
    [] endpoint = "PUT /api/facilities/minor-slots" -> minorSlotsReplace(in)
    [] endpoint = "PATCH /api/facilities/core-major/:index/purchased" ->
         facilitySetPurchased(in)
    [] endpoint = "PATCH /api/facilities/core-major/:facilityIndex/upgrades/:upgradeIndex" ->
         upgradeSetCount(in)
    [] endpoint = "PUT /api/facilities/minor-slots/:slotNumber/assign" -> adminSlotAssign(in)
    [] endpoint = "DELETE /api/facilities/minor-slots/:slotNumber/clear" -> slotClear(in)
    [] endpoint = "PATCH /api/facilities/minor-slots/:slotNumber/toggle-enabled" ->
         slotToggleEnabled(in)
    [] endpoint = "DELETE /api/facilities/minor-slots/:slotNumber/demolish" ->
         slotDemolish(in)

\* one admin request, from its arrival to its response: the handlers are
\* synchronous functions, so nothing runs between their reads and their writes
\* (every writeFileSync is taken to succeed)
AdminRequestWithin(budget, endpoint, in) ==
  /\ last = NoRun
  /\ call = NoCall
  /\ served < budget
  /\ LET h == AdminHandle(endpoint, in) IN
       /\ h.generated > 0 => nextId <= MaxTx
       /\ jobs' = IF written(h.effects, "jobs") THEN h.new.jobs ELSE jobs
       /\ factions' = IF written(h.effects, "factions") THEN h.new.factions ELSE factions
       /\ manna' = IF written(h.effects, "manna") THEN h.new.manna ELSE manna
       /\ pilots' = IF written(h.effects, "pilots") THEN h.new.pilots ELSE pilots
       /\ reserves' = IF written(h.effects, "reserves") THEN h.new.reserves ELSE reserves
       /\ storeConfig' = IF written(h.effects, "storeConfig")
                         THEN h.new.storeConfig ELSE storeConfig
       /\ coreMajorFacilities' = IF written(h.effects, "coreMajorFacilities")
                                 THEN h.new.coreMajorFacilities ELSE coreMajorFacilities
       /\ minorFacilitiesSlots' = IF written(h.effects, "minorFacilitiesSlots")
                                  THEN h.new.minorFacilitiesSlots ELSE minorFacilitiesSlots
       /\ settings' = IF written(h.effects, "settings") THEN h.new.settings ELSE settings
       /\ nextId' = nextId + h.generated
       /\ last' = [key |-> endpoint, input |-> in, reason |-> h.reason,
                   status |-> h.status, trace |-> h.effects]
  /\ served' = served + 1
  /\ UNCHANGED <<locks, req, sseState, call>>

AdminRequest(endpoint, in) == AdminRequestWithin(MaxRequests, endpoint, in)

\* GET /api/factions: the response body
FactionsRead ==
  /\ call = NoCall
  /\ call' = [fn |-> "GET /api/factions", result |-> enrichAllFactions(factions, jobs)]
  /\ UNCHANGED <<lockedState, adminData, sseState>>

\* the records of the finished request and of the read that followed it are
\* dropped before the next request is served
AdminForget ==
  /\ last # NoRun \/ call # NoCall
  /\ last' = NoRun
  /\ call' = NoCall
  /\ UNCHANGED <<collections, locks, req, nextId, adminData, sseState>>

\* ------------------------- SpecJobs: jobs, factions and the faction counts

\* the requests sent to the job and faction routes; an id in a route is one
\* that is in the collection (12, 21) or one that is not (99)
JobsInputs(endpoint) ==
  LET jobData ==
        {[AdminIn0 EXCEPT !.state = s, !.factionId = f] :
           s \in {"", "Complete", "Failed", "Bogus"}, f \in {NoFaction, 21, 99}}
        \cup {[AdminIn0 EXCEPT !.emblem = e] : e \in {"ok.svg", "gone.svg", "../x.svg"}}
      factionData ==
        {[AdminIn0 EXCEPT !.standing = st] : st \in {Num(7), [t |-> "text", v |-> 0]}}
        \cup {[AdminIn0 EXCEPT !.jobsCompletedOffset = o] :
                o \in {Num(3), NumericString(2), [t |-> "undefined", v |-> 0]}}
        \cup {[AdminIn0 EXCEPT !.title = " "]}
  IN
  CASE endpoint = "POST /api/jobs" -> jobData
    [] endpoint = "PUT /api/jobs/:id" -> {[d EXCEPT !.id = i] : d \in jobData, i \in {12, 99}}
    [] endpoint = "DELETE /api/jobs/:id" -> {[AdminIn0 EXCEPT !.id = i] : i \in {12, 99}}
    [] endpoint = "PUT /api/jobs/:id/state" ->
         {[AdminIn0 EXCEPT !.id = i, !.state = s] :
            i \in {12, 99}, s \in {"", "Complete", "Failed", "Bogus"}}
    [] endpoint = "POST /api/jobs/progress-all" -> {AdminIn0}
    [] endpoint = "POST /api/factions" -> factionData
    [] endpoint = "PUT /api/factions/:id" ->
         {[d EXCEPT !.id = i] : d \in factionData, i \in {21, 99}}
    [] endpoint = "DELETE /api/factions/:id" -> {[AdminIn0 EXCEPT !.id = i] : i \in {21, 99}}

NextJobs ==
  \/ \E in \in JobsInputs("POST /api/jobs") : AdminRequest("POST /api/jobs", in)
  \/ \E in \in JobsInputs("PUT /api/jobs/:id") : AdminRequest("PUT /api/jobs/:id", in)
  \/ \E in \in JobsInputs("DELETE /api/jobs/:id") : AdminRequest("DELETE /api/jobs/:id", in)
  \/ \E in \in JobsInputs("PUT /api/jobs/:id/state") :
       AdminRequest("PUT /api/jobs/:id/state", in)
  \/ \E in \in JobsInputs("POST /api/jobs/progress-all") :
       AdminRequest("POST /api/jobs/progress-all", in)
  \/ \E in \in JobsInputs("POST /api/factions") : AdminRequest("POST /api/factions", in)
  \/ \E in \in JobsInputs("PUT /api/factions/:id") :
       AdminRequest("PUT /api/factions/:id", in)
  \/ \E in \in JobsInputs("DELETE /api/factions/:id") :
       AdminRequest("DELETE /api/factions/:id", in)
  \/ FactionsRead
  \/ AdminForget

\* the ledger and the settings play no part here: one data directory
InitJobs ==
  /\ Init
  /\ manna[1].amount = 100
  /\ settings.facilityCostModifier = 0

SpecJobs == InitJobs /\ [][NextJobs]_vars

\* ------------- SpecAdmin: the admin endpoints for transactions, pilots,
\* reserves, jobs and factions, and the two purchases that feed them

\* the requests sent to the admin routes; an id in a route is one that is in
\* the collection (1, "p2", "ra", 12, 21) or one that is not (99, "pX", "rX")
AdminInputs(endpoint) ==
  LET pilotData ==
        {[AdminIn0 EXCEPT !.personalTransactions = ids] :
           ids \in {NotSent, Arr(<<1>>), Arr(<<99>>), Json(<<2, 99>>), NotJson}}
        \cup {[AdminIn0 EXCEPT !.name = " "], [AdminIn0 EXCEPT !.ll = Num(13)]}
  IN
  CASE endpoint = "POST /api/manna/transaction" ->
         {[AdminIn0 EXCEPT !.amount = a] :
            a \in {Num(-30), Num(0), NumericString(0), [t |-> "text", v |-> 0]}}
         \cup {[AdminIn0 EXCEPT !.amount = Num(-30), !.pilotIds = ids] :
                 ids \in {Arr(<<"p1">>), Json(<<"p1", "pX">>), NotJson}}
         \cup {[AdminIn0 EXCEPT !.amount = Num(-30), !.description = " "]}
    [] endpoint = "PUT /api/manna/transaction/:id" ->
         {[AdminIn0 EXCEPT !.id = i, !.amount = a] :
            i \in {1, 99},
            a \in {Num(70), Num(0), NumericString(0), [t |-> "text", v |-> 0]}}
         \cup {[AdminIn0 EXCEPT !.id = i, !.amount = Num(70), !.description = " "] :
                 i \in {1, 99}}
         \cup {[AdminIn0 EXCEPT !.id = i, !.amount = Num(70), !.date = ""] : i \in {1, 99}}
    [] endpoint = "DELETE /api/manna/transaction/:id" ->
         {[AdminIn0 EXCEPT !.id = i] : i \in {1, 99}}
    [] endpoint = "PUT /api/manna/transaction/:id/pilots" ->
         {[AdminIn0 EXCEPT !.id = i, !.pilotIds = ids] :
            i \in {1, 99}, ids \in {Arr(<<"p2">>), Arr(<<"pX">>), NotJson, NotSent}}
    [] endpoint = "POST /api/pilots" -> pilotData
    [] endpoint = "PUT /api/pilots/:id" ->
         {[d EXCEPT !.pilotId = p] : d \in pilotData, p \in {"p2", "pX"}}
    [] endpoint = "DELETE /api/pilots/:id" ->
         {[AdminIn0 EXCEPT !.pilotId = p] : p \in {"p2", "pX"}}
    [] endpoint = "PUT /api/pilots/:id/personal-transactions" ->
         {[AdminIn0 EXCEPT !.pilotId = p, !.personalTransactions = ids] :
            p \in {"p2", "pX"},
            ids \in {Arr(<<1>>), Arr(<<1, 1>>), Arr(<<99>>), NotJson, NotSent}}
    [] endpoint = "PUT /api/reserves/:id" ->
         {[AdminIn0 EXCEPT !.reserveId = r, !.price = pr] :
            r \in {"ra", "rX"}, pr \in {Num(90), Num(-1)}}
         \cup {[AdminIn0 EXCEPT !.reserveId = r, !.rank = Num(4)] : r \in {"ra", "rX"}}
    [] endpoint = "DELETE /api/reserves/:id" ->
         {[AdminIn0 EXCEPT !.reserveId = r] : r \in {"ra", "rX"}}
    [] endpoint \in {"PUT /api/jobs/:id", "PUT /api/jobs/:id/state"} ->
         {[AdminIn0 EXCEPT !.id = i, !.state = s] :
            i \in {12, 99}, s \in {"Failed", "Bogus"}}
    [] endpoint = "PUT /api/factions/:id" ->
         {[AdminIn0 EXCEPT !.id = i, !.standing = st] :
            i \in {21, 99}, st \in {Num(3), Num(7)}}
    [] endpoint \in {"DELETE /api/jobs/:id", "DELETE /api/factions/:id"} ->
         JobsInputs(endpoint)

\* the purchases whose results the admin endpoints meet: a facility paid by
\* the first pilot, a reserve paid by the first pilot for the second
PurchaseInputs(key) ==
  CASE key = "facility-purchase" ->
         {[In0 EXCEPT !.index = 1, !.expensePilots = <<"p1">>]}
    [] key = "procurement-purchase" ->
         {[In0 EXCEPT !.itemType = "reserve", !.itemId = "ra", !.assignee = "p2",
                      !.expensePilots = <<"p1">>]}
    [] key = "facility-upgrade-purchase" ->
         {[In0 EXCEPT !.index = i, !.expensePilots = <<"p1">>] : i \in {0, 1}}
    [] key = "minor-slot-enable" ->
         {[In0 EXCEPT !.slotNumber = n, !.expensePilots = <<"p1">>] : n \in {1, 5}}
    [] key = "minor-slot-assign" ->
         {[In0 EXCEPT !.slotNumber = n, !.facilityName = f, !.expensePilots = <<"p1">>] :
            n \in {1, 2, 5}, f \in {"Gym", "Bar", "Gym "}}

NextAdmin ==
  \/ \E in \in AdminInputs("POST /api/manna/transaction") :
       AdminRequest("POST /api/manna/transaction", in)
  \/ \E in \in AdminInputs("PUT /api/manna/transaction/:id") :
       AdminRequest("PUT /api/manna/transaction/:id", in)
  \/ \E in \in AdminInputs("DELETE /api/manna/transaction/:id") :
       AdminRequest("DELETE /api/manna/transaction/:id", in)
  \/ \E in \in AdminInputs("PUT /api/manna/transaction/:id/pilots") :
       AdminRequest("PUT /api/manna/transaction/:id/pilots", in)
  \/ \E in \in AdminInputs("POST /api/pilots") : AdminRequest("POST /api/pilots", in)
  \/ \E in \in AdminInputs("PUT /api/pilots/:id") : AdminRequest("PUT /api/pilots/:id", in)
  \/ \E in \in AdminInputs("DELETE /api/pilots/:id") :
       AdminRequest("DELETE /api/pilots/:id", in)
  \/ \E in \in AdminInputs("PUT /api/pilots/:id/personal-transactions") :
       AdminRequest("PUT /api/pilots/:id/personal-transactions", in)
  \/ \E in \in AdminInputs("PUT /api/reserves/:id") :
       AdminRequest("PUT /api/reserves/:id", in)
  \/ \E in \in AdminInputs("DELETE /api/reserves/:id") :
       AdminRequest("DELETE /api/reserves/:id", in)
  \/ \E in \in AdminInputs("PUT /api/jobs/:id") : AdminRequest("PUT /api/jobs/:id", in)
  \/ \E in \in AdminInputs("DELETE /api/jobs/:id") :
       AdminRequest("DELETE /api/jobs/:id", in)
  \/ \E in \in AdminInputs("PUT /api/jobs/:id/state") :
       AdminRequest("PUT /api/jobs/:id/state", in)
  \/ \E in \in AdminInputs("PUT /api/factions/:id") :
       AdminRequest("PUT /api/factions/:id", in)
  \/ \E in \in AdminInputs("DELETE /api/factions/:id") :
       AdminRequest("DELETE /api/factions/:id", in)
  \/ \E in \in PurchaseInputs("facility-purchase") : Serve("facility-purchase", in)
  \/ \E in \in PurchaseInputs("procurement-purchase") : Serve("procurement-purchase", in)
  \/ AdminForget

\* the first pilot starts with 100 to spend
InitAdmin ==
  /\ Init
  /\ manna[1].amount = 100

SpecAdmin == InitAdmin /\ [][NextAdmin]_vars

\* --------------- SpecReserves: reserves, the pilots' reserves and the store

\* the requests of one run
MaxReserveRequests == 3

\* the requests sent to the reserve, pilot-reserve and store routes: "ra" is
\* a reserve of the catalogue, "rX" is not
ReserveInputs(endpoint) ==
  CASE endpoint = "POST /api/reserves" ->
         {[AdminIn0 EXCEPT !.price = pr] : pr \in {Num(90), Num(-1)}}
    [] endpoint = "PUT /api/reserves/:id" ->
         {[AdminIn0 EXCEPT !.reserveId = "ra", !.price = Num(90)]}
    [] endpoint = "DELETE /api/reserves/:id" ->
         {[AdminIn0 EXCEPT !.reserveId = r] : r \in {"ra", "rX"}}
    [] endpoint = "POST /api/pilots" ->
         {[AdminIn0 EXCEPT !.reserves = rs] :
            rs \in {Arr(<<Held("ra", "In Reserve")>>), Arr(<<Legacy("rX")>>),
                    Json(<<Legacy("ra")>>)}}
    [] endpoint = "PUT /api/pilots/:id" ->
         {[AdminIn0 EXCEPT !.pilotId = "p1", !.reserves = rs] :
            rs \in {NotSent, NotJson, Arr(<<Held("ra", "Deployed"), Legacy("ra")>>),
                    Arr(<<Held("rX", "In Reserve")>>), Arr(<<Held("ra", "Lost")>>)}}
    [] endpoint = "PUT /api/pilots/:id/reserves-management" ->
         {[AdminIn0 EXCEPT !.pilotId = "p1", !.reserves = rs] :
            rs \in {Arr(<<Held("ra", "In Reserve")>>), Arr(<<Legacy("ra"), Legacy("rX")>>),
                    Arr(<<Held("", "Deployed")>>), Json(<<Legacy("ra")>>), NotSent,
                    Arr(<<>>)}}
         \cup {[AdminIn0 EXCEPT !.pilotId = "pX", !.reserves = Arr(<<Legacy("ra")>>)]}
    [] endpoint = "POST /api/pilots/:pilotId/reserves/:reserveId/transfer" ->
         {[AdminIn0 EXCEPT !.pilotId = "p1", !.reserveId = "ra", !.targetPilotId = t] :
            t \in {"p2", "p1", "pX", ""}}
         \cup {[AdminIn0 EXCEPT !.pilotId = p, !.reserveId = "ra", !.targetPilotId = "p1"] :
                 p \in {"p2", "pX"}}
    [] endpoint = "DELETE /api/pilots/:pilotId/reserves/:reserveId" ->
         {[AdminIn0 EXCEPT !.pilotId = p, !.reserveId = "ra"] : p \in {"p1", "p2", "pX"}}
    [] endpoint = "PUT /api/store-config" ->
         {[AdminIn0 EXCEPT !.currentStock = st] :
            st \in {Arr(<<"ra", "ra">>), Arr(<<"rX">>), Arr(<<>>), Json(<<"ra">>)}}
         \cup {[AdminIn0 EXCEPT !.resupplyItems = it] :
                 it \in {Arr(<<[id |-> "repair", price |-> 60, enabled |-> TRUE]>>),
                         Arr(<<[id |-> "repair", price |-> 60, enabled |-> TRUE],
                               [id |-> "off", price |-> -1, enabled |-> TRUE],
                               [id |-> "kit", price |-> 10, enabled |-> TRUE]>>),
                         Arr(<<[id |-> "repair", price |-> 60, enabled |-> TRUE],
                               [id |-> "off", price |-> 60, enabled |-> TRUE],
                               [id |-> "", price |-> 10, enabled |-> TRUE]>>),
                         Arr(<<[id |-> "repair", price |-> 60, enabled |-> FALSE],
                               [id |-> "off", price |-> 60, enabled |-> FALSE],
                               [id |-> "kit", price |-> 10, enabled |-> TRUE]>>)}}
    [] endpoint = "POST /api/store-config/add-random" ->
         {[AdminIn0 EXCEPT !.random = r] : r \in {0, 1}}
    [] endpoint = "POST /api/store-config/remove-stock" ->
         {[AdminIn0 EXCEPT !.reserveIds = ids, !.removeAll = all] :
            ids \in {Arr(<<"ra">>), Arr(<<"rX">>), NotSent}, all \in BOOLEAN}

ReserveRequest(endpoint) ==
  \E in \in ReserveInputs(endpoint) : AdminRequestWithin(MaxReserveRequests, endpoint, in)

NextReserves ==
  \/ ReserveRequest("POST /api/reserves")
  \/ ReserveRequest("PUT /api/reserves/:id")
  \/ ReserveRequest("DELETE /api/reserves/:id")
  \/ ReserveRequest("POST /api/pilots")
  \/ ReserveRequest("PUT /api/pilots/:id")
  \/ ReserveRequest("PUT /api/pilots/:id/reserves-management")
  \/ ReserveRequest("POST /api/pilots/:pilotId/reserves/:reserveId/transfer")
  \/ ReserveRequest("DELETE /api/pilots/:pilotId/reserves/:reserveId")
  \/ ReserveRequest("PUT /api/store-config")
  \/ ReserveRequest("POST /api/store-config/add-random")
  \/ ReserveRequest("POST /api/store-config/remove-stock")
  \/ \E in \in PurchaseInputs("procurement-purchase") : Serve("procurement-purchase", in)
  \/ AdminForget

SpecReserves == InitJobs /\ [][NextReserves]_vars

\* -------------- SpecFacilities: the facility routes of the admin and client

\* a facility and an upgrade as a request body carries them
facilityData(purchased, price, ups) ==
  [type |-> "Major", facilityName |-> "F", facilityPrice |-> price,
   isPurchased |-> purchased, upgrades |-> ups]

upgradeData(count, max) ==
  [upgradeName |-> "U", upgradePrice |-> Num(50), maxPurchases |-> max,
   upgradeCount |-> count]

\* the three facilities of a bulk replacement, the first with one upgrade
facilitiesBody(count, max) ==
  <<facilityData(TRUE, Num(0), <<upgradeData(count, max)>>),
    facilityData(FALSE, Num(150), <<>>), facilityData(FALSE, Num(0), <<>>)>>

\* the six slots of a bulk replacement
slotsBody(numbers, names, flags) ==
  [i \in 1..Len(numbers) |->
     [slotNumber |-> Num(numbers[i]), facilityName |-> names[i], enabled |-> flags[i]]]

FacilityAdminInputs(endpoint) ==
  CASE endpoint = "PUT /api/facilities/core-major" ->
         {[AdminIn0 EXCEPT !.facilities = Arr(facilitiesBody(c, Num(2)))] :
            c \in {Num(1), NumericString(1), Num(3), [t |-> "text", v |-> 0]}}
         \cup {[AdminIn0 EXCEPT !.facilities = Arr(<<facilityData(TRUE, Num(0), <<>>)>>)],
               [AdminIn0 EXCEPT !.facilities = NotSent]}
    [] endpoint = "PUT /api/facilities/minor-slots" ->
         {[AdminIn0 EXCEPT !.slots = Arr(slotsBody(n, f, e))] :
            n \in {<<1, 2, 3, 4, 5, 6>>},
            f \in {<<"", "Bar", "", "", "", "">>, <<"Gym", "Gym", "", "", "", "">>},
            e \in {<<TRUE, TRUE, TRUE, TRUE, FALSE, FALSE>>,
                   <<FALSE, TRUE, TRUE, TRUE, TRUE, FALSE>>}}
         \cup {[AdminIn0 EXCEPT !.slots = Arr(slotsBody(n, <<"", "", "", "", "", "">>,
                                        <<TRUE, TRUE, TRUE, TRUE, FALSE, FALSE>>))] :
                 n \in {<<1, 1, 1, 1, 1, 1>>, <<1, 2, 3, 4, 5, 7>>}}
         \cup {[AdminIn0 EXCEPT !.slots = Arr(slotsBody(<<1, 2>>, <<"", "">>, <<TRUE, TRUE>>))],
               [AdminIn0 EXCEPT !.slots = NotSent]}
    [] endpoint = "PATCH /api/facilities/core-major/:index/purchased" ->
         {[AdminIn0 EXCEPT !.index = i, !.isPurchased = b] : i \in {0, 5}, b \in BOOLEAN}
    [] endpoint = "PATCH /api/facilities/core-major/:facilityIndex/upgrades/:upgradeIndex" ->
         {[AdminIn0 EXCEPT !.upgradeCount = c] :
            c \in {Num(1), NumericString(0), Num(2), Num(-1), [t |-> "text", v |-> 0]}}
         \cup {[AdminIn0 EXCEPT !.index = i, !.upgradeCount = Num(1)] : i \in {1, 5}}
         \cup {[AdminIn0 EXCEPT !.upgradeIndex = 3, !.upgradeCount = Num(1)]}
    [] endpoint = "PUT /api/facilities/minor-slots/:slotNumber/assign" ->
         {[AdminIn0 EXCEPT !.slotNumber = n, !.facilityName = f] :
            n \in {1, 2, 5, 7}, f \in {"Gym", "Bar", "Bar ", " "}}
    [] endpoint = "DELETE /api/facilities/minor-slots/:slotNumber/clear" ->
         {[AdminIn0 EXCEPT !.slotNumber = n] : n \in {2, 7}}
    [] endpoint = "PATCH /api/facilities/minor-slots/:slotNumber/toggle-enabled" ->
         {[AdminIn0 EXCEPT !.slotNumber = n, !.enabled = b] : n \in {1, 5, 7}, b \in BOOLEAN}
    [] endpoint = "DELETE /api/facilities/minor-slots/:slotNumber/demolish" ->
         {[AdminIn0 EXCEPT !.slotNumber = n] : n \in {1, 2, 7}}

FacilityRequest(endpoint) ==
  \E in \in FacilityAdminInputs(endpoint) : AdminRequest(endpoint, in)

Purchase(key) == \E in \in PurchaseInputs(key) : Serve(key, in)

NextFacilities ==
  \/ FacilityRequest("PUT /api/facilities/core-major")
  \/ FacilityRequest("PUT /api/facilities/minor-slots")
  \/ FacilityRequest("PATCH /api/facilities/core-major/:index/purchased")
  \/ FacilityRequest("PATCH /api/facilities/core-major/:facilityIndex/upgrades/:upgradeIndex")
  \/ FacilityRequest("PUT /api/facilities/minor-slots/:slotNumber/assign")
  \/ FacilityRequest("DELETE /api/facilities/minor-slots/:slotNumber/clear")
  \/ FacilityRequest("PATCH /api/facilities/minor-slots/:slotNumber/toggle-enabled")
  \/ FacilityRequest("DELETE /api/facilities/minor-slots/:slotNumber/demolish")
  \/ Purchase("facility-upgrade-purchase")
  \/ Purchase("minor-slot-enable")
  \/ Purchase("minor-slot-assign")
  \/ AdminForget

InitFacilities == Init /\ settings.facilityCostModifier = 0

SpecFacilities == InitFacilities /\ [][NextFacilities]_vars

\* ------- SpecMixed: purchases under different lock keys next to admin edits

\* the unlocked admin requests that meet the purchases: a transaction charged
\* to the first pilot, and lists that replace what a purchase appended to
MixedInputs(endpoint) ==
  CASE endpoint = "POST /api/manna/transaction" ->
         {[AdminIn0 EXCEPT !.amount = Num(-30), !.pilotIds = Arr(<<"p1">>)]}
    [] endpoint = "PUT /api/pilots/:id/personal-transactions" ->
         {[AdminIn0 EXCEPT !.pilotId = "p1", !.personalTransactions = Arr(<<1>>)]}
    [] endpoint = "PUT /api/pilots/:id/reserves-management" ->
         {[AdminIn0 EXCEPT !.pilotId = "p2", !.reserves = Arr(<<>>)]}

\* an admin handler has no await: it runs to its response in one task, at any
\* point between the tasks of the purchases
MixedRequest(endpoint) ==
  \E in \in MixedInputs(endpoint) : AdminRequestWithin(MaxRequests, endpoint, in)

\* a purchase reaches its endpoint and calls acquire
PurchaseArrive(key) ==
  \E r \in Reqs : \E in \in PurchaseInputs(key) : Arrive(r, key, in)

NextMixed ==
  \/ PurchaseArrive("facility-purchase")
  \/ PurchaseArrive("procurement-purchase")
  \/ \E r \in Reqs : Poll(r)
  \/ Tick
  \/ \E r \in Reqs : Critical(r)
  \/ MixedRequest("POST /api/manna/transaction")
  \/ MixedRequest("PUT /api/pilots/:id/personal-transactions")
  \/ MixedRequest("PUT /api/pilots/:id/reserves-management")
  \/ AdminForget

InitMixed ==
  /\ Init
  /\ manna[1].amount = 5000
  /\ settings.facilityCostModifier = 0

SpecMixed == InitMixed /\ [][NextMixed]_vars

\* ------ SpecLastItem: two procurement purchases of the one reserve in stock

\* the purchases of reserve "ra", for either pilot, paid by either pilot
LastItemInputs ==
  {[In0 EXCEPT !.itemType = "reserve", !.itemId = "ra", !.assignee = a,
               !.expensePilots = <<payer>>] : a \in {"p1", "p2"}, payer \in {"p1", "p2"}}

NextLastItem ==
  \/ \E r \in Reqs : \E in \in LastItemInputs : Arrive(r, "procurement-purchase", in)
  \/ \E r \in Reqs : Poll(r)
  \/ Tick
  \/ \E r \in Reqs : Critical(r)

SpecLastItem == Init /\ [][NextLastItem]_vars

\* ------- SpecLoop: the two request slots under the event loop's ordering

\* a request reaches a locked endpoint. Its handler is called from a callback
\* of the event loop, and the continuation of `await fileMutex.acquire(key)`
\* is a promise job: the loop runs it before it calls the next callback
Dispatch(r, key, in) ==
  /\ \A other \in Reqs : req[other].pc # "acquired"
  /\ Arrive(r, key, in)

NextLoop ==
  \/ \E r \in Reqs, key \in LockKeys : \E in \in ContendedInputs(key) : Dispatch(r, key, in)
  \/ \E r \in Reqs : Critical(r)

SpecLoop == Init /\ [][NextLoop]_vars

\* ------------------------------- what a read and a broadcast hand to a viewer

\* enrichJobsWithFactions(jobs, factions): faction is the faction of the job,
\* here a list of one, or null, here the empty list
enrichJobsWithFactions(js, fs) ==
  [i \in 1..Len(js) |->
     [job |-> js[i], faction |-> SelectSeq(fs, LAMBDA f : f.id = js[i].factionId)]]

\* enrichPilotsWithBalance(pilots, manna)
enrichPilotsWithBalance(ps, transactions) ==
  [p \in DOMAIN ps |->
     [pilot |-> ps[p], hasBalance |-> TRUE,
      balance |-> calculatePilotBalance(ps[p], transactions)]]

\* the pilots as readPilots() or a map over it returns them: no balance field
rawPilots(ps) ==
  [p \in DOMAIN ps |-> [pilot |-> ps[p], hasBalance |-> FALSE, balance |-> 0]]

\* the pilots in the payload of the 'pilots' event a route broadcasts
pilotsPayload(route, ps, transactions) ==
  CASE route = "DELETE /api/pilots/:id" -> rawPilots(ps)
    [] route = "POST /api/jobs/progress-all" -> rawPilots(ps)
    [] OTHER -> enrichPilotsWithBalance(ps, transactions)

\* ----------- SpecLedger: admin transactions and the pilots they are tied to

\* the requests: transactions with and without a pilot list, re-association
\* of a transaction, a pilot made inactive, a pilot listing a transaction twice
LedgerInputs(endpoint) ==
  LET lists == {NotSent, NotJson, Arr(<<>>), Arr(<<"p2">>), Arr(<<"p1", "p2">>),
                Arr(<<"p2", "p2">>), Json(<<"p1">>), Arr(<<"pX">>), Arr(<<"p1", "pX">>)}
  IN
  CASE endpoint = "POST /api/manna/transaction" ->
         {[AdminIn0 EXCEPT !.amount = a, !.pilotIds = ids] :
            a \in {Num(-30), Num(0)}, ids \in lists}
    [] endpoint = "PUT /api/manna/transaction/:id/pilots" ->
         {[AdminIn0 EXCEPT !.id = i, !.pilotIds = ids] : i \in {1, 99}, ids \in lists}
    [] endpoint = "PUT /api/pilots/:id" ->
         {[AdminIn0 EXCEPT !.pilotId = "p2", !.active = FALSE,
                           !.personalTransactions = Arr(<<2>>)]}
    [] endpoint = "PUT /api/pilots/:id/personal-transactions" ->
         {[AdminIn0 EXCEPT !.pilotId = "p1", !.personalTransactions = Arr(<<1, 2, 1>>)]}

LedgerRequest(endpoint) ==
  \E in \in LedgerInputs(endpoint) : AdminRequestWithin(MaxRequests, endpoint, in)

NextLedger ==
  \/ LedgerRequest("POST /api/manna/transaction")
  \/ LedgerRequest("PUT /api/manna/transaction/:id/pilots")
  \/ LedgerRequest("PUT /api/pilots/:id")
  \/ LedgerRequest("PUT /api/pilots/:id/personal-transactions")
  \/ AdminForget

SpecLedger == InitJobs /\ [][NextLedger]_vars

\* ------------------------- SpecShare: the per-pilot share of a split purchase

\* the prices and the numbers of payers the share is computed for
MaxSharePrice == 12
MaxPayers == 4

SharePrices == 0..MaxSharePrice \cup {50, 150, 5000}

InitShare ==
  /\ InitState
  /\ \E price \in SharePrices, n \in 1..MaxPayers :
       call = [fn |-> "costPerPilot", done |-> FALSE, price |-> price,
               expensePilots |-> [i \in 1..n |-> "p1"], result |-> 0]

\* const costPerPilot = Math.ceil(modifiedPrice / expensePilots.length)
EvalShare ==
  /\ call.fn = "costPerPilot"
  /\ ~call.done
  /\ call' = [call EXCEPT !.done = TRUE,
                          !.result = costPerPilot(call.price, call.expensePilots)]
  /\ UNCHANGED <<lockedState, adminData, sseClients, sseBroken, sseDropped, sseClosed, sseLog>>

NextShare == EvalShare

SpecShare == InitShare /\ [][NextShare]_vars

\* ------------- SpecProgress: progress-all after job and pilot edits

\* the admin requests of one run
MaxProgressRequests == 3

ProgressInputs(endpoint) ==
  CASE endpoint = "POST /api/jobs/progress-all" -> {AdminIn0}
    [] endpoint = "POST /api/jobs" -> {AdminIn0}
    [] endpoint = "PUT /api/jobs/:id/state" ->
         {[AdminIn0 EXCEPT !.id = i, !.state = s] : i \in {11, 12}, s \in {"Pending", "Active"}}
    [] endpoint = "PUT /api/pilots/:id" ->
         {[AdminIn0 EXCEPT !.pilotId = p, !.active = a, !.relatedJobs = rj] :
            p \in {"p1", "p2"}, a \in BOOLEAN, rj \in {NotSent, Arr(<<12, 12>>)}}

ProgressRequest(endpoint) ==
  \E in \in ProgressInputs(endpoint) : AdminRequestWithin(MaxProgressRequests, endpoint, in)

NextProgress ==
  \/ ProgressRequest("POST /api/jobs/progress-all")
  \/ ProgressRequest("POST /api/jobs")
  \/ ProgressRequest("PUT /api/jobs/:id/state")
  \/ ProgressRequest("PUT /api/pilots/:id")
  \/ AdminForget

SpecProgress == InitJobs /\ [][NextProgress]_vars

\* -------- SpecProcure: procurement purchases from a stock the admin filled

ProcureInputs(endpoint) ==
  CASE endpoint = "PUT /api/store-config" ->
         {[AdminIn0 EXCEPT !.currentStock = st] : st \in {Arr(<<"ra", "ra">>), Arr(<<>>)}}
    [] endpoint = "POST /api/store-config/add-random" -> {AdminIn0}

ProcureRequest(endpoint) ==
  \E in \in ProcureInputs(endpoint) : AdminRequestWithin(MaxRequests, endpoint, in)

NextProcure ==
  \/ ProcureRequest("PUT /api/store-config")
  \/ ProcureRequest("POST /api/store-config/add-random")
  \/ \E in \in ProcurementInputs : Serve("procurement-purchase", in)
  \/ AdminForget

SpecProcure == Init /\ [][NextProcure]_vars

\* ------- SpecFinances: what GET /client/finances and /client/overview compute

\* ledgers with dates: in date order, against it, and with a tie
FinanceLedgers ==
  {<<>>,
   <<[id |-> 1, amount |-> -300, date |-> 1]>>,
   <<[id |-> 1, amount |-> -300, date |-> 1], [id |-> 2, amount |-> 100, date |-> 2]>>,
   <<[id |-> 1, amount |-> -300, date |-> 2], [id |-> 2, amount |-> 100, date |-> 1]>>,
   <<[id |-> 1, amount |-> -300, date |-> 1], [id |-> 2, amount |-> 100, date |-> 1]>>}

\* [...array].reverse()
reverse(array) == [i \in 1..Len(array) |-> array[Len(array) + 1 - i]]

RECURSIVE runningSum(_, _)
\* cumulativeBalance after the first k rows
runningSum(rows, k) ==
  IF k = 0 THEN 0 ELSE runningSum(rows, k - 1) + rows[k].totalAmount

\* mutation: each row carries its own totalAmount, nothing is accumulated
calculateCumulativeBalancesPerRow(rows) ==
  [k \in 1..Len(rows) |-> [row |-> rows[k], cumulativeBalance |-> rows[k].totalAmount]]

\* helpers.calculateCumulativeBalances(enrichedTransactions)
calculateCumulativeBalances(rows) ==
  [k \in 1..Len(rows) |-> [row |-> rows[k], cumulativeBalance |-> runningSum(rows, k)]]

RECURSIVE sumBalances(_)
\* activePilotBalances.reduce((sum, pb) => sum + pb.balance, 0)
sumBalances(balances) ==
  IF balances = <<>> THEN 0 ELSE Head(balances).balance + sumBalances(Tail(balances))

RECURSIVE sumDefined(_, _)
\* the forEach that adds transactionMap[txnId] where it is not undefined
sumDefined(ids, transactions) ==
  IF ids = <<>> THEN 0
  ELSE (IF ledgerIndexOf(transactions, Head(ids)) = 0 THEN 0
        ELSE transactions[ledgerIndexOf(transactions, Head(ids))].amount)
       + sumDefined(Tail(ids), transactions)

RECURSIVE calculateBalancesFromPilots(_, _)
\* calculateBalancesFromPilots(), for the pilots and the ledger it reads
calculateBalancesFromPilots(ps, transactions) ==
  IF ps = <<>> THEN [activeBalance |-> 0, totalBalance |-> 0]
  ELSE LET rest == calculateBalancesFromPilots(Tail(ps), transactions)
           pilotBalance == sumDefined(Head(ps).personalTransactions, transactions)
       IN [activeBalance |-> rest.activeBalance
                               + (IF Head(ps).active THEN pilotBalance ELSE 0),
           totalBalance |-> rest.totalBalance + pilotBalance]

InitFinances ==
  /\ InitState
  /\ \E ps \in FeedPilots, ledger \in FinanceLedgers :
       call = [fn |-> "finances", done |-> FALSE, pilots |-> ps, transactions |-> ledger,
               totalBalance |-> 0, allTransactions |-> <<>>, activeBalance |-> 0]

\* GET /client/finances computes the total and the feed it renders; GET
\* /api/manna computes the balances
EvalFinances ==
  /\ call.fn = "finances"
  /\ ~call.done
  /\ call' = [call EXCEPT
                !.done = TRUE,
                !.totalBalance =
                   sumBalances(getActivePilotBalances(call.pilots, call.transactions)),
                !.allTransactions =
                   reverse(calculateCumulativeBalances(reverse(
                     getDeduplicatedTransactionHistory(call.pilots, call.transactions)))),
                !.activeBalance =
                   calculateBalancesFromPilots(call.pilots, call.transactions).activeBalance]
  /\ UNCHANGED <<lockedState, adminData, sseClients, sseBroken, sseDropped, sseClosed, sseLog>>

NextFinances == EvalFinances

SpecFinances == InitFinances /\ [][NextFinances]_vars

\* ------- GET /api/pilots/:id/balance

\* manna.transactions.filter(t => personalTransactionIds.includes(t.id))
pilotTransactions(pilot, transactions) ==
  SelectSeq(transactions, LAMBDA t : t.id \in Range(pilot.personalTransactions))

\* runningBalance after the map over pilotTransactions: each ledger entry the
\* pilot lists is added once
runningBalance(pilot, transactions) == sumLedger(pilotTransactions(pilot, transactions))

TypeOK ==
  /\ locks \subseteq LockKeys
  /\ nextId \in 3..(MaxTx + 3)
  /\ \A r \in Reqs : req[r].pc \in {"idle", "waiting", "acquired", "done"}

\* ------------------------------------------------- observations of the runs

\* under Spec: this step is a handler run, recorded in last'
Ran == last = NoRun /\ last' # NoRun

\* under SpecContended: in this step request r gives up waiting for the lock
TimedOut(r) ==
  /\ req[r].pc # "done"
  /\ req'[r].pc = "done"
  /\ req'[r].result = "timeout"

balanceBefore(p) == calculatePilotBalance(pilots[p], manna)
balanceAfter(p) == calculatePilotBalance(pilots'[p], manna')

ledgerHas(transactions, txnId) == \E i \in 1..Len(transactions) : transactions[i].id = txnId

writesOf(trace) == SelectSeq(trace, LAMBDA e : e.op = "write")
broadcastsOf(trace) == SelectSeq(trace, LAMBDA e : e.op = "broadcast")

isPrefix(s, t) == Len(s) <= Len(t) /\ s = SubSeq(t, 1, Len(s))

\* ---------------------------------------------------------------------- C1
\* C1: a facility purchase is rejected with a validation error, and the
\* ledger, the pilots and the facilities stay as they were, whenever some
\* listed payer's balance is below ceil(modifiedPrice / payerCount).
C1_InsufficientFundsRejected ==
  [][(Ran /\ last'.key = "facility-purchase") =>
       LET in == last'.input
           ep == in.expensePilots
       IN (/\ Len(ep) > 0
           /\ in.index >= 0 /\ in.index < Len(coreMajorFacilities)
           /\ \E i \in 1..Len(ep) :
                /\ ep[i] \in DOMAIN pilots
                /\ balanceBefore(ep[i]) <
                     mathCeil(applyFacilityCostModifier(
                                coreMajorFacilities[in.index + 1].facilityPrice,
                                settings.facilityCostModifier), Len(ep)))
          => (/\ last'.reason \notin {"ok", "storage_error"}
              /\ last'.status = 400
              /\ last'.trace = <<>>
              /\ manna' = manna
              /\ pilots' = pilots
              /\ coreMajorFacilities' = coreMajorFacilities)]_vars

\* payers with 100 and 40 ask for the facility of price 150 (share 75): rejected
C1_Witness ==
  /\ last.key = "facility-purchase"
  /\ last.reason = "insufficient_funds"
  /\ last.input.expensePilots = <<"p1", "p2">>
  /\ last.input.index = 1
  /\ settings.facilityCostModifier = 0
  /\ calculatePilotBalance(pilots["p1"], manna) = 100
  /\ calculatePilotBalance(pilots["p2"], manna) = 40
  /\ ~coreMajorFacilities[2].isPurchased

\* ---------------------------------------------------------------------- C2
\* C2: of two facility purchases of the same unpurchased facility that are in
\* flight together and would each pass validation alone, exactly one succeeds,
\* the other is rejected as already purchased, and the ledger holds exactly
\* one entry for that facility; no two purchases of one facility both succeed.
C2_OnePurchaseWins ==
  \A r1, r2 \in Reqs :
    (/\ r1 # r2
     /\ req[r1].pc = "done" /\ req[r2].pc = "done"
     /\ req[r1].key = "facility-purchase" /\ req[r2].key = "facility-purchase"
     /\ req[r1].input.index = req[r2].input.index)
    => /\ ~(req[r1].result = "success" /\ req[r2].result = "success")
       /\ (/\ req[r1].okAtArrival /\ req[r2].okAtArrival
           /\ req[r1].result \notin {"storage_error", "timeout"}
           /\ req[r2].result \notin {"storage_error", "timeout"})
          => /\ {req[r1].result, req[r2].result} = {"success", "already_purchased"}
             /\ Cardinality({i \in 1..Len(manna) :
                               manna[i].description =
                                 Description("facility", req[r1].input.index, 0, "")}) = 1

C2_Witness ==
  /\ req["r1"].pc = "done" /\ req["r2"].pc = "done"
  /\ req["r1"].key = "facility-purchase" /\ req["r2"].key = "facility-purchase"
  /\ req["r1"].input.index = 1 /\ req["r2"].input.index = 1
  /\ req["r1"].okAtArrival /\ req["r2"].okAtArrival
  /\ req["r1"].result = "already_purchased"
  /\ req["r2"].result = "success"
  /\ coreMajorFacilities[2].isPurchased

\* ---------------------------------------------------------------------- C3
\* C3: after any successful split purchase each listed payer's balance is
\* exactly one per-pilot share lower than before and is not negative, also
\* when the list names the same pilot more than once.
C3_EachPayerOneShareLower ==
  [][(Ran /\ last'.reason = "ok") =>
       LET ep == last'.input.expensePilots
           share == 0 - manna'[Len(manna')].amount
       IN \A i \in 1..Len(ep) :
            /\ balanceAfter(ep[i]) = balanceBefore(ep[i]) - share
            /\ balanceAfter(ep[i]) >= 0]_vars

\* ---------------------------------------------------------------------- C4
\* C4: a facility purchase is never half-applied, also when one of its writes
\* fails: if the ledger holds the purchase's transaction the facility is
\* flagged purchased, and if a payer's personalTransactions holds the
\* transaction id the transaction is in the ledger.
C4_FacilityPurchaseNotHalfApplied ==
  [][(Ran /\ last'.key = "facility-purchase"
          /\ last'.reason \in {"ok", "storage_error"}) =>
       LET txnId == nextId
           index == last'.input.index
       IN /\ ledgerHas(manna', txnId) => coreMajorFacilities'[index + 1].isPurchased
          /\ \A p \in DOMAIN pilots' :
               (\E i \in 1..Len(pilots'[p].personalTransactions) :
                  pilots'[p].personalTransactions[i] = txnId)
               => ledgerHas(manna', txnId)]_vars

\* the write of the pilots failed: the facility is flagged, the ledger has the
\* transaction, no payer refers to it
C4_Witness ==
  /\ last.key = "facility-purchase"
  /\ last.reason = "storage_error"
  /\ writesOf(last.trace) = <<W("coreMajorFacilities"), W("manna")>>
  /\ coreMajorFacilities[last.input.index + 1].isPurchased
  /\ ledgerHas(manna, nextId - 1)
  /\ \A p \in DOMAIN pilots : Len(pilots[p].personalTransactions) = 1

\* ---------------------------------------------------------------------- C5
\* C5: for each lock key at most one request is between a successful acquire
\* and its release, and that request's key is in the lock table.
C5_MutualExclusion ==
  /\ \A r1, r2 \in Reqs :
       (r1 # r2 /\ req[r1].pc = "acquired" /\ req[r2].pc = "acquired")
       => req[r1].key # req[r2].key
  /\ \A r \in Reqs : req[r].pc = "acquired" => req[r].key \in locks

\* one request holds a key while another sleeps in acquire for the same key
C5_Witness ==
  \E r1, r2 \in Reqs :
    /\ req[r1].pc = "acquired" /\ req[r2].pc = "waiting"
    /\ req[r1].key = req[r2].key
    /\ req[r1].key \in locks

\* ---------------------------------------------------------------------- C6
\* C6: a lock key is held only while a request is inside the critical section
\* for it: once a request has left by success, by rejection or by an exception,
\* its key is free and a later request of the class can acquire it.
C6_ReleasedOnEveryExit ==
  \A key \in locks : \E r \in Reqs : req[r].pc = "acquired" /\ req[r].key = key

\* after one request left by rejection or exception, and another by success,
\* of the same class, the key is free
C6_Witness ==
  \E r1, r2 \in Reqs :
    /\ req[r1].pc = "done" /\ req[r1].result \in {"rejected", "storage_error"}
    /\ req[r2].pc = "done" /\ req[r2].result = "success"
    /\ req[r1].key = req[r2].key
    /\ req[r1].key \notin locks

C8_TimeoutTouchesNothing ==
  [][\A r \in Reqs :
       TimedOut(r) =>
         /\ UNCHANGED collections
         /\ nextId' = nextId
         /\ last'.trace = <<>>
         /\ locks' = locks
         /\ req[r].key \in locks'
         /\ \E h \in Reqs : req'[h].pc = "acquired" /\ req'[h].key = req[r].key]_vars

C8_Witness ==
  \E r, h \in Reqs :
    /\ req[r].pc = "done" /\ req[r].result = "timeout"
    /\ req[h].pc = "acquired" /\ req[h].key = req[r].key
    /\ req[r].key \in locks
    /\ last.reason = "lock_timeout"

\* ---------------------------------------------------------------------- C9
\* the collection a purchase operation changes besides the ledger and the pilots
itemCollection(key) ==
  CASE key \in {"facility-purchase", "facility-upgrade-purchase"} -> "coreMajorFacilities"
    [] key \in {"minor-slot-enable", "minor-slot-assign"} -> "minorFacilitiesSlots"
    [] key = "procurement-purchase" -> "storeConfig"

\* C9 as stated: every locked purchase operation writes its item or facility
\* collection first, then the ledger, then the pilots.
C9_ItemThenLedgerThenPilots ==
  last.key \in LockKeys =>
    isPrefix(writesOf(last.trace),
             <<W(itemCollection(last.key)), W("manna"), W("pilots")>>)

\* C9 as the code has it: the four facility operations write their facility
\* collection, then the ledger, then the pilots; a procurement purchase
\* writes the ledger, then the pilots, then the store configuration.
C9_WriteOrder ==
  last.key \in LockKeys =>
    /\ isPrefix(writesOf(last.trace),
                IF last.key = "procurement-purchase"
                THEN <<W("manna"), W("pilots"), W("storeConfig")>>
                ELSE <<W(itemCollection(last.key)), W("manna"), W("pilots")>>)
    /\ last.reason = "ok" => Len(writesOf(last.trace)) = 3

C9_Witness ==
  /\ last.key = "procurement-purchase"
  /\ last.reason = "ok"
  /\ writesOf(last.trace) = <<W("manna"), W("pilots"), W("storeConfig")>>

\* --------------------------------------------------------------------- C10
\* C10: in a purchase operation no broadcast is sent before all three of
\* its writes are done, and a purchase that is rejected, or one of whose
\* writes fails, sends no broadcast.
C10_BroadcastAfterAllWrites ==
  last.key \in LockKeys =>
    /\ \A i \in 1..Len(last.trace) :
         last.trace[i].op = "broadcast" =>
           /\ Len(writesOf(SubSeq(last.trace, 1, i - 1))) = 3
           /\ {W("manna"), W("pilots"), W(itemCollection(last.key))}
                \subseteq {last.trace[j] : j \in 1..(i - 1)}
           /\ \A j \in (i + 1)..Len(last.trace) : last.trace[j].op = "broadcast"
    /\ last.reason # "ok" => broadcastsOf(last.trace) = <<>>

C10_Witness ==
  /\ last.key \in LockKeys
  /\ last.reason = "ok"
  /\ Len(writesOf(last.trace)) = 3
  /\ Len(broadcastsOf(last.trace)) >= 3

\* --------------------------------------------------------------------- C11
\* C11: in a broadcast a subscriber whose write throws is removed from the
\* set, every other subscriber of the set receives the event, the error does
\* not reach the caller of the broadcast, and no subscriber removed earlier
\* is written to again.
C11_BroadcastResilience ==
  [][(sseLog'.n = sseLog.n + 1) =>
       LET before == Range(sseClients) IN
       /\ \A c \in before \cap sseBroken : c \notin Range(sseClients')
       /\ \A c \in before \ sseBroken :
            c \in sseLog'.delivered /\ c \in Range(sseClients')
       /\ sseLog'.delivered \cap sseBroken = {}
       /\ ~sseLog'.threw
       /\ sseLog'.attempted \cap sseDropped = {}
       /\ Range(sseClients') \cap sseDropped' = {}]_vars

\* a broadcast that lost one subscriber and reached another, after an earlier
\* broadcast had already removed a subscriber
C11_Witness ==
  /\ sseLog.n >= 2
  /\ \E c \in sseDropped : c \in sseLog.attempted
  /\ \E c \in sseDropped : c \notin sseLog.attempted
  /\ sseLog.delivered # {}
  /\ ~sseLog.threw

\* --------------------------------------------------------------------- C12
\* the amount the ledger gives for an id: that of its entry with that id, 0 if
\* it has none (of several entries with one id, the last)
resolvedAmount(ledger, id) ==
  LET at == {i \in 1..Len(ledger) : ledger[i].id = id}
  IN IF at = {} THEN 0 ELSE ledger[CHOOSE i \in at : \A j \in at : j <= i].amount

RECURSIVE sumOver(_, _)
sumOver(ledger, refs) ==
  IF refs = <<>> THEN 0
  ELSE resolvedAmount(ledger, refs[1]) + sumOver(ledger, Tail(refs))

removeAt(seq, k) == SubSeq(seq, 1, k - 1) \o SubSeq(seq, k + 1, Len(seq))

\* C12: calculatePilotBalance(P, L) is the sum of amount over the ids of
\* P.personalTransactions that resolve in L; an id that does not resolve adds
\* zero; a transaction of L that P does not refer to does not change the result.
C12_BalanceIsSumOfReferenced ==
  (call.fn = "calculatePilotBalance" /\ call.done) =>
    LET refs == call.pilot.personalTransactions
        ledger == call.transactions
    IN /\ call.result = sumOver(ledger, refs)
       /\ call.result =
            sumOver(ledger, SelectSeq(refs, LAMBDA id :
                                      \E i \in 1..Len(ledger) : ledger[i].id = id))
       /\ \A k \in 1..Len(ledger) :
            (\A i \in 1..Len(refs) : refs[i] # ledger[k].id)
            => calculatePilotBalance(call.pilot, removeAt(ledger, k)) = call.result

\* a pilot that refers to a resolving id and to a dangling one, with a ledger
\* that also holds a transaction the pilot does not refer to
C12_Witness ==
  /\ call.fn = "calculatePilotBalance" /\ call.done
  /\ call.pilot.personalTransactions = <<1, 3>>
  /\ call.transactions = <<[id |-> 1, amount |-> 100], [id |-> 2, amount |-> -300]>>
  /\ call.result = 100

\* --------------------------------------------------------------------- C13
\* the active pilots that refer to transaction id
referencingPilots(ps, id) ==
  {i \in 1..Len(ps) :
     ps[i].active /\ \E k \in 1..Len(ps[i].personalTransactions) :
                       ps[i].personalTransactions[k] = id}

\* C13: a transaction referenced by several pilots adds its full amount to the
\* balance of each pilot that refers to it, once per pilot, and its entry in
\* the feed has totalAmount = amount * (number of active pilots referring to it).
C13_FullAmountEachAndTotalByPilotCount ==
  (call.fn = "overview" /\ call.done) =>
    /\ \A i \in 1..Len(call.balances) :
         LET pilot == CHOOSE p \in Range(call.pilots) :
                        p.callsign = call.balances[i].callsign
             ids == Range(pilot.personalTransactions)
         IN call.balances[i].balance =
              sumOver(call.transactions,
                      SelectSeq(<<1, 2>>, LAMBDA id : id \in ids))
    /\ \A k \in 1..Len(call.history) :
         call.history[k].totalAmount =
           call.history[k].amount
             * Cardinality(referencingPilots(call.pilots, call.history[k].id))

\* --------------------------------------------------------------------- C14
\* C14: for a non-negative integer price and an integer modifier the function
\* returns round(price * (1 + c / 100) / 50) * 50, c being the modifier clamped
\* to [-100, 300], a half being rounded up.
C14_MatchesRoundingFormula ==
  (/\ call.fn = "applyFacilityCostModifier" /\ call.done
   /\ call.basePrice.t = "number" /\ call.basePrice.v >= 0
   /\ call.modifier.t = "number")
  => LET c == IF call.modifier.v < -100 THEN -100
              ELSE IF call.modifier.v > 300 THEN 300 ELSE call.modifier.v
         twice == (2 * call.basePrice.v * (100 + c)) \div 5000
     IN call.server = ((twice + 1) \div 2) * 50

\* --------------------------------------------------------------------- C15
\* C15: the server's applyFacilityCostModifier and the browser's return the
\* same value for every price and modifier: negative and non-numeric prices,
\* non-numeric modifiers and modifiers outside [-100, 300] included.
C15_ServerAndClientAgree ==
  (call.fn = "applyFacilityCostModifier" /\ call.done) => call.server = call.client

\* a modifier above 300 is clamped by both
C15_Witness ==
  /\ call.fn = "applyFacilityCostModifier" /\ call.done
  /\ call.basePrice = Num(1000)
  /\ call.modifier = Num(350)
  /\ call.server = 4000
  /\ call.client = 4000

\* --------------------------------------------------------------------- C16

\* the number of current jobs of a faction in a state
jobsInState(factionId, state) ==
  Cardinality({k \in 1..Len(jobs) : jobs[k].factionId = factionId /\ jobs[k].state = state})

\* C16: every read of the factions returns, for each faction, jobsCompleted =
\* jobsCompletedOffset + the number of current jobs with its id and state
\* Complete, and jobsFailed = jobsFailedOffset + the number with state Failed,
\* whatever job create, update, state change, delete or progress-all came before
C16_ReadReflectsCurrentJobs ==
  [][(call = NoCall /\ call' # NoCall) =>
       /\ Len(call'.result) = Len(factions)
       /\ \A i \in 1..Len(factions) :
            /\ call'.result[i].id = factions[i].id
            /\ call'.result[i].jobsCompleted =
                 factions[i].jobsCompletedOffset + jobsInState(factions[i].id, "Complete")
            /\ call'.result[i].jobsFailed =
                 factions[i].jobsFailedOffset + jobsInState(factions[i].id, "Failed")]_vars

\* offset 3, two jobs of the faction, one of them just changed to Failed: the
\* read after the change gives jobsCompleted 4 and jobsFailed offset + 1
C16_Witness ==
  /\ last.key = "PUT /api/jobs/:id/state"
  /\ last.reason = "ok"
  /\ last.input.id = 12
  /\ last.input.state = "Failed"
  /\ call # NoCall
  /\ Len(jobs) = 2
  /\ jobs[1] = [id |-> 11, state |-> "Complete", factionId |-> 21]
  /\ jobs[2] = [id |-> 12, state |-> "Failed", factionId |-> 21]
  /\ factions[1].jobsCompletedOffset = 3
  /\ call.result[1].jobsCompleted = 4
  /\ call.result[1].jobsFailed = factions[1].jobsFailedOffset + 1

\* --------------------------------------------------------------------- C17

\* a request has just been answered
Answered == last = NoRun /\ last' # NoRun

\* C17: a request answered with a 4xx status (a validation failure, a missing
\* target, a conflict) leaves every collection as it was, hands out no id and
\* has made no write and no broadcast
C17_RejectionChangesNothing ==
  [][(Answered /\ last'.status \in 400..499) =>
       /\ UNCHANGED <<collections, jobs, factions, nextId>>
       /\ last'.trace = <<>>]_vars

\* the conflict: the second pilot owns the reserve, its deletion is refused
\* with 409 and the reserve is still in the catalog
C17_Witness ==
  /\ last.key = "DELETE /api/reserves/:id"
  /\ last.status = 409
  /\ last.input.reserveId = "ra"
  /\ inUseByPilot(pilots, "ra")
  /\ findIndex(reserves, "ra") # 0

\* --------------------------------------------------------------------- C18

\* the routes that update or delete the entity named by an id
JobRoutes == {"PUT /api/jobs/:id", "DELETE /api/jobs/:id", "PUT /api/jobs/:id/state"}
FactionRoutes == {"PUT /api/factions/:id", "DELETE /api/factions/:id"}
PilotRoutes ==
  {"PUT /api/pilots/:id", "DELETE /api/pilots/:id", "PUT /api/pilots/:id/personal-transactions"}
TransactionRoutes ==
  {"PUT /api/manna/transaction/:id", "DELETE /api/manna/transaction/:id",
   "PUT /api/manna/transaction/:id/pilots"}
ReserveRoutes == {"PUT /api/reserves/:id", "DELETE /api/reserves/:id"}

\* the request names an id that is not in its collection
targetAbsent(key, in) ==
  \/ key \in JobRoutes /\ \A i \in 1..Len(jobs) : jobs[i].id # in.id
  \/ key \in FactionRoutes /\ \A i \in 1..Len(factions) : factions[i].id # in.id
  \/ key \in PilotRoutes /\ in.pilotId \notin DOMAIN pilots
  \/ key \in TransactionRoutes /\ \A i \in 1..Len(manna) : manna[i].id # in.id
  \/ key \in ReserveRoutes /\ \A i \in 1..Len(reserves) : reserves[i].id # in.reserveId

\* C18: an update or delete of a job, faction, pilot, transaction or reserve
\* whose id is not in the collection is answered with 404 and makes no write
\* and no broadcast
C18_AbsentTargetIs404 ==
  [][(Answered /\ targetAbsent(last'.key, last'.input)) =>
       /\ last'.status = 404
       /\ last'.trace = <<>>
       /\ UNCHANGED <<collections, jobs, factions>>]_vars

\* --------------------------------------------------------------------- C19

\* C19: every transaction in the ledger has a non-zero amount, whether an
\* admin created it, an admin edited it or a purchase recorded it
C19_EveryAmountNonZero == \A i \in 1..Len(manna) : manna[i].amount # 0

\* --------------------------------------------------------------------- C20

\* the routes that set personalTransactions from the request body
PersonalTransactionsRoutes ==
  {"POST /api/pilots", "PUT /api/pilots/:id", "PUT /api/pilots/:id/personal-transactions"}

\* the request supplies an id that is not the id of a transaction in the ledger
suppliesUnresolvedId(in) ==
  /\ parseArray(in.personalTransactions).ok
  /\ \E k \in 1..Len(in.personalTransactions.ids) :
       \A i \in 1..Len(manna) : manna[i].id # in.personalTransactions.ids[k]

\* C20: pilot create, pilot update and PUT /api/pilots/:id/personal-transactions
\* refuse a request that supplies an id not in the current ledger, and leave
\* the pilots as they were
C20_UnresolvedIdsRefused ==
  [][(Answered /\ last'.key \in PersonalTransactionsRoutes
        /\ suppliesUnresolvedId(last'.input)) =>
       /\ last'.status \in 400..499
       /\ UNCHANGED pilots]_vars

\* --------------------------------------------------------------------- C21
occurrences(ids, id) == Len(SelectSeq(ids, LAMBDA x : x = id))

deletedTransaction == last'.input.id

C21_DeleteHappened ==
  /\ Answered
  /\ last'.key = "DELETE /api/manna/transaction/:id"
  /\ last'.status = 200

\* C21: after a successful delete of a transaction the ledger no longer has
\* it, every pilot's personalTransactions is the former list without that id
\* (the other ids in their order), and every pilot's balance has moved by
\* minus the transaction's amount for each time the pilot referred to it
C21_DeletePrunesReferences ==
  [][C21_DeleteHappened =>
       /\ ~ledgerHas(manna', deletedTransaction)
       /\ \A p \in DOMAIN pilots :
            /\ p \in DOMAIN pilots'
            /\ deletedTransaction \notin Range(pilots'[p].personalTransactions)
            /\ pilots'[p].personalTransactions =
                 SelectSeq(pilots[p].personalTransactions,
                           LAMBDA x : x # deletedTransaction)
            /\ balanceAfter(p) =
                 balanceBefore(p)
                   - transactionAmount(manna, deletedTransaction)
                       * occurrences(pilots[p].personalTransactions, deletedTransaction)]_vars

\* transaction 1 was deleted while the second pilot referred to it twice, next
\* to the first pilot's single reference
C21_Witness ==
  /\ last.key = "DELETE /api/manna/transaction/:id"
  /\ last.status = 200
  /\ last.input.id = 1
  /\ ~ledgerHas(manna, 1)
  /\ pilots["p1"].personalTransactions = <<>>
  /\ pilots["p2"].personalTransactions = <<>>
  /\ writesOf(last.trace) = <<W("manna"), W("pilots")>>

\* --------------------------------------------------------------------- C22
reserveIdsOf(rs) == {rs[i].id : i \in 1..Len(rs)}

heldReservesResolve ==
  \A p \in DOMAIN pilots :
    \A i \in 1..Len(pilots[p].reserves) : pilots[p].reserves[i].reserveId \in reserveIdsOf(reserves)

\* C22: every reserveId a pilot holds is the id of a reserve of the catalogue,
\* whatever reserve, pilot, pilot-reserve, store and procurement requests were
\* served; and a delete of a reserve that a pilot holds is answered 409 and
\* writes, broadcasts and changes nothing
C22_HeldReservesResolve ==
  /\ []heldReservesResolve
  /\ [][(/\ Answered
         /\ last'.key = "DELETE /api/reserves/:id"
         /\ inUseByPilot(pilots, last'.input.reserveId))
        => /\ last'.status = 409
           /\ last'.trace = <<>>
           /\ UNCHANGED <<collections, reserves, nextId>>]_vars

\* the delete of reserve "ra" was refused while the second pilot, and not the
\* first, held it (by a transfer, a purchase or an edit)
C22_Witness ==
  /\ last.key = "DELETE /api/reserves/:id"
  /\ last.status = 409
  /\ last.input.reserveId = "ra"
  /\ pilots["p1"].reserves = <<>>
  /\ \E i \in 1..Len(pilots["p2"].reserves) : pilots["p2"].reserves[i].reserveId = "ra"
  /\ "ra" \in reserveIdsOf(reserves)

\* --------------------------------------------------------------------- C23
\* C23: whatever was served (toggle-enabled, the enable purchase, assign,
\* clear, demolish, a bulk replacement of the slots), slots 1 to 4 are
\* enabled and the collection has exactly six slots, numbered 1 to 6
C23_OnlySlots5And6Toggle ==
  /\ Len(minorFacilitiesSlots) = 6
  /\ \A n \in 1..6 : minorFacilitiesSlots[n].slotNumber = n
  /\ \A n \in 1..4 : minorFacilitiesSlots[n].enabled

\* --------------------------------------------------------------------- C24
AssignRoutes == {"minor-slot-assign", "PUT /api/facilities/minor-slots/:slotNumber/assign"}

assignedSlot == slotIndexOf(minorFacilitiesSlots, last'.input.slotNumber)

\* C24: an assign request, from the client or from the admin, succeeds only
\* on a slot that is enabled and has no facility; a rejected one leaves the
\* slots as they were
C24_AssignOnlyEnabledEmpty ==
  [][(Answered /\ last'.key \in AssignRoutes) =>
       /\ last'.status = 200 =>
            /\ assignedSlot # 0
            /\ minorFacilitiesSlots[assignedSlot].enabled
            /\ minorFacilitiesSlots[assignedSlot].facilityName = ""
       /\ last'.status \in 400..499 => UNCHANGED minorFacilitiesSlots]_vars

\* --------------------------------------------------------------------- C25
\* C25: no two minor slots hold the same non-empty facility name
C25_NoDuplicateFacilityNames ==
  \A i, j \in 1..Len(minorFacilitiesSlots) :
    (i # j /\ minorFacilitiesSlots[i].facilityName # "")
      => minorFacilitiesSlots[i].facilityName # minorFacilitiesSlots[j].facilityName

\* --------------------------------------------------------------------- C26
upgradeCountsInRange ==
  \A f \in 1..Len(coreMajorFacilities) :
    \A u \in 1..Len(coreMajorFacilities[f].upgrades) :
      /\ 0 <= coreMajorFacilities[f].upgrades[u].upgradeCount
      /\ coreMajorFacilities[f].upgrades[u].upgradeCount
           <= coreMajorFacilities[f].upgrades[u].maxPurchases

\* C26: every upgrade has 0 <= upgradeCount <= maxPurchases in every state,
\* and an upgrade purchase that succeeds found its facility purchased and the
\* count below maxPurchases, and raised the count by exactly 1
C26_UpgradeCountWithinMax ==
  /\ []upgradeCountsInRange
  /\ [][(Answered /\ last'.key = "facility-upgrade-purchase" /\ last'.status = 200) =>
          LET f == last'.input.index + 1
              u == last'.input.upgradeIndex + 1
          IN /\ coreMajorFacilities[f].isPurchased
             /\ coreMajorFacilities[f].upgrades[u].upgradeCount
                  < coreMajorFacilities[f].upgrades[u].maxPurchases
             /\ coreMajorFacilities'[f].upgrades[u].upgradeCount
                  = coreMajorFacilities[f].upgrades[u].upgradeCount + 1]_vars

\* ------------------------------------------------------------------- C27

\* the ledger entries a purchase request wrote
entriesOf(r) ==
  {i \in 1..Len(manna) :
     manna[i].description =
       IF req[r].key = "facility-purchase"
       THEN Description("facility", req[r].input.index, 0, "")
       ELSE Description(req[r].input.itemType, 0, 0, req[r].input.itemId)}

\* request r was answered with success
succeeded(r) == req[r].pc = "done" /\ req[r].result = "success"

\* the ledger entry of r is in the ledger
ledgerEntryKept(r) == entriesOf(r) # {}

\* every payer of r still references the entry of r, and the assignee of a
\* procurement still holds the reserve
pilotChangesKept(r) ==
  /\ \E i \in entriesOf(r) :
       \A k \in 1..Len(req[r].input.expensePilots) :
         \E j \in 1..Len(pilots[req[r].input.expensePilots[k]].personalTransactions) :
           pilots[req[r].input.expensePilots[k]].personalTransactions[j] = manna[i].id
  /\ req[r].key = "procurement-purchase" =>
       heldIndex(pilots[req[r].input.assignee].reserves, req[r].input.itemId) # 0

\* the lists a purchase or a transaction create appends to are extended
appendOnly ==
  /\ isPrefix(manna, manna')
  /\ \A p \in DOMAIN pilots :
       /\ p \in DOMAIN pilots'
       /\ isPrefix(pilots[p].personalTransactions, pilots'[p].personalTransactions)
       /\ isPrefix(pilots[p].reserves, pilots'[p].reserves)

\* this step is a pilot edit that was accepted
pilotEdited ==
  /\ Ran
  /\ last'.key \in {"PUT /api/pilots/:id/personal-transactions",
                    "PUT /api/pilots/:id/reserves-management"}
  /\ last'.status = 200

\* an accepted pilot edit changes the one list it sends of the one pilot it names
editReplacesOneList ==
  /\ manna' = manna
  /\ \A p \in DOMAIN pilots :
       /\ p # last'.input.pilotId => pilots'[p] = pilots[p]
       /\ last'.key = "PUT /api/pilots/:id/personal-transactions" =>
            pilots'[p].reserves = pilots[p].reserves
       /\ last'.key = "PUT /api/pilots/:id/reserves-management" =>
            pilots'[p].personalTransactions = pilots[p].personalTransactions

\* C27 as stated: whatever the interleaving of purchases under different lock
\* keys, admin transaction creates and pilot edits, the final state holds the
\* ledger entry and the pilot changes of every purchase that succeeded
C27_BothChangesInFinalState ==
  \A r \in Reqs : succeeded(r) => ledgerEntryKept(r) /\ pilotChangesKept(r)

\* C27, amended: the ledger entry of every successful purchase stays in the
\* ledger; a step that creates a transaction (a purchase, an admin create) only
\* appends to the ledger, to the payers' references and to the assignee's
\* reserves, so it keeps what the other requests wrote; an accepted pilot edit
\* replaces the one list it sends of the one pilot it names, and with it the
\* entries a purchase appended to that list
C27_NoLostUpdate ==
  /\ [](\A r \in Reqs : succeeded(r) => ledgerEntryKept(r))
  /\ [][/\ nextId' # nextId => appendOnly
        /\ pilotEdited => editReplacesOneList]_vars

\* a facility purchase and a procurement purchase were both answered with
\* success, an admin transaction was created next to them, and the ledger and
\* the first pilot's references hold all three
C27_Witness ==
  /\ \A r \in Reqs : succeeded(r) /\ pilotChangesKept(r)
  /\ req["r1"].key # req["r2"].key
  /\ Len(manna) = 5
  /\ \E i \in 1..Len(manna) : manna[i].description.what = "admin"
  /\ Len(pilots["p1"].personalTransactions) = 4

\* ------------------------------------------------------------------- C28

\* the entries of pilot p for reserve reserveId
heldCount(p, reserveId) ==
  Cardinality({i \in 1..Len(pilots[p].reserves) :
                 pilots[p].reserves[i].reserveId = reserveId})

\* requests a and b are procurement purchases of the same reserve, and each
\* would have passed validation when it arrived: both were in flight before
\* either ran
sameLastItem(a, b) ==
  /\ a # b
  /\ req[a].key = "procurement-purchase" /\ req[b].key = "procurement-purchase"
  /\ req[a].input.itemType = "reserve" /\ req[b].input.itemType = "reserve"
  /\ req[a].input.itemId = req[b].input.itemId
  /\ req[a].okAtArrival /\ req[b].okAtArrival

\* both were answered: one with success, the other with 404; the stock has lost
\* the occurrence, one ledger entry names the reserve, and the only entry for
\* the reserve among the pilots is the one of the winner's assignee
oneWinner(a, b) ==
  LET id == req[a].input.itemId IN
  /\ {req[a].result, req[b].result} = {"success", "rejected"}
  /\ \A r \in {a, b} : req[r].result = "rejected" => req[r].status = 404
  /\ stockIndexOf(storeConfig.currentStock, id) = 0
  /\ Cardinality({i \in 1..Len(manna) :
                    manna[i].description = Description("reserve", 0, 0, id)}) = 1
  /\ \A r \in {a, b} :
       req[r].result = "success" =>
         \A p \in DOMAIN pilots :
           heldCount(p, id) = IF p = req[r].input.assignee THEN 1 ELSE 0

\* in this step request r is answered after the other request won
answeredAfterWinner(r) ==
  /\ req[r].pc = "acquired" /\ req'[r].pc = "done"
  /\ \E w \in Reqs : sameLastItem(r, w) /\ req[w].pc = "done" /\ req[w].result = "success"

\* C28: two procurement purchases of a reserve with one occurrence in the
\* stock, in flight together, end with exactly one success: the stock loses the
\* occurrence, exactly one assignee gains one entry, exactly one ledger entry
\* is created, and the other request is rejected as not in stock (404) and
\* changes nothing (a lock timeout or a failed write apart)
C28_LastItemSoldOnce ==
  /\ [](\A a, b \in Reqs :
          (/\ sameLastItem(a, b)
           /\ req[a].pc = "done" /\ req[b].pc = "done"
           /\ req[a].result \notin {"storage_error", "timeout"}
           /\ req[b].result \notin {"storage_error", "timeout"})
          => oneWinner(a, b))
  /\ [][\A r \in Reqs :
          answeredAfterWinner(r) =>
            /\ last'.reason = "not_in_stock"
            /\ last'.status = 404
            /\ last'.trace = <<>>
            /\ UNCHANGED <<collections, nextId>>]_vars

\* both asked for "ra" while it was in stock; the first pilot's request won and
\* the second pilot's was refused with 404
C28_Witness ==
  /\ sameLastItem("r1", "r2")
  /\ req["r1"].pc = "done" /\ req["r2"].pc = "done"
  /\ req["r1"].input.assignee = "p1" /\ req["r2"].input.assignee = "p2"
  /\ req["r1"].result = "success"
  /\ req["r2"].result = "rejected" /\ req["r2"].status = 404
  /\ storeConfig.currentStock = <<>>
  /\ heldCount("p1", "ra") = 1 /\ heldCount("p2", "ra") = 0

\* ------------------------------------------------------------------- C29

\* this step changes what a fresh read of the collection type returns: GET
\* /api/jobs, /api/factions and /api/pilots return the enriched lists, the
\* ledger is compared as stored
viewChanged(eventType) ==
  CASE eventType = "jobs" ->
         enrichJobsWithFactions(jobs', factions') # enrichJobsWithFactions(jobs, factions)
    [] eventType = "factions" ->
         enrichAllFactions(factions', jobs') # enrichAllFactions(factions, jobs)
    [] eventType = "pilots" ->
         enrichPilotsWithBalance(pilots', manna') # enrichPilotsWithBalance(pilots, manna)
    [] eventType = "manna" -> manna' # manna

\* C29: after every successful mutating request there is a broadcast for every
\* collection type whose stored content or enriched view the request changed:
\* the factions after a job's state change or delete changed their job counts,
\* the pilots after a transaction amount edit changed their balances
C29_EveryChangedViewBroadcast ==
  [][(Ran /\ last'.reason = "ok" /\ last'.status = 200) =>
       \A eventType \in {"jobs", "factions", "pilots", "manna"} :
         viewChanged(eventType) =>
           \E i \in 1..Len(last'.trace) : last'.trace[i] = B(eventType)]_vars

\* ------------------------------------------------------------------- C30

\* C30: every 'pilots' broadcast carries each pilot with a balance field equal
\* to calculatePilotBalance(pilot, ledger) on the state just written; no route
\* broadcasts the stored pilot records as they are
C30_EveryPilotsBroadcastEnriched ==
  [][(Ran /\ \E i \in 1..Len(last'.trace) : last'.trace[i] = B("pilots")) =>
       LET payload == pilotsPayload(last'.key, pilots', manna') IN
       \A p \in DOMAIN payload :
         /\ payload[p].hasBalance
         /\ payload[p].balance = calculatePilotBalance(pilots'[p], manna')]_vars

\* ------------------------------------------------------------------- C31

\* the pilot list of the request of this step: omitted, empty or not readable
noListSent(in) == in.pilotIds.fmt \notin {"array", "json"} \/ Len(in.pilotIds.ids) = 0

\* the ids of the list of the request
listed(in) == {in.pilotIds.ids[i] : i \in 1..Len(in.pilotIds.ids)}

\* C31: an admin transaction create without a pilot list appends the new
\* transaction's id exactly once to every active pilot and to no inactive one;
\* with a list it appends it exactly once to each listed pilot and to no
\* other; a list with an id that is no pilot is rejected, and the ledger and
\* the pilots stay as they were
C31_CreateFansOut ==
  [][(Ran /\ last'.key = "POST /api/manna/transaction") =>
       LET in == last'.input
           targets == IF noListSent(in) THEN {p \in DOMAIN pilots : pilots[p].active}
                      ELSE listed(in)
       IN /\ last'.reason = "ok" =>
               /\ Len(manna') = Len(manna) + 1
               /\ manna'[Len(manna')].id = nextId
               /\ DOMAIN pilots' = DOMAIN pilots
               /\ \A p \in DOMAIN pilots :
                    /\ occurrences(pilots[p].personalTransactions, nextId) = 0
                    /\ pilots'[p].personalTransactions =
                         IF p \in targets
                         THEN Append(pilots[p].personalTransactions, nextId)
                         ELSE pilots[p].personalTransactions
          /\ (~noListSent(in) /\ listed(in) \ DOMAIN pilots # {}) =>
               /\ last'.status = 400
               /\ last'.trace = <<>>
               /\ manna' = manna
               /\ pilots' = pilots]_vars

\* a transaction created without a list while the second pilot is inactive:
\* the first pilot references it, the second does not
C31_Witness ==
  /\ last.key = "POST /api/manna/transaction" /\ last.reason = "ok"
  /\ last.input.pilotIds = NotSent
  /\ ~pilots["p2"].active
  /\ occurrences(pilots["p1"].personalTransactions, 3) = 1
  /\ occurrences(pilots["p2"].personalTransactions, 3) = 0
  /\ manna[Len(manna)].id = 3

\* ------------------------------------------------------------------- C32

\* C32: the share of a split purchase is ceil(price / payerCount): the total
\* collected, share * payerCount, is at least the price and exceeds it by less
\* than payerCount, and one unit less per payer would not cover the price
C32_ShareCoversPrice ==
  (call.fn = "costPerPilot" /\ call.done) =>
    LET n == Len(call.expensePilots) IN
    /\ call.result * n >= call.price
    /\ call.result * n < call.price + n
    /\ (call.result - 1) * n < call.price

\* price 10 split among three payers: share 4, total 12
C32_Witness ==
  /\ call.fn = "costPerPilot" /\ call.done
  /\ call.price = 10
  /\ Len(call.expensePilots) = 3
  /\ call.result = 4

\* ------------------------------------------------------------------- C33

\* the state progress-all gives a job in state s
progressed(s) ==
  CASE s = "Active" -> "Ignored"
    [] s = "Pending" -> "Active"
    [] OTHER -> s

\* the ids of the jobs that are Pending
pendingJobIds == {jobs[i].id : i \in {k \in 1..Len(jobs) : jobs[k].state = "Pending"}}

\* C33: progress-all moves every Active job to Ignored and every Pending job to
\* Active, one step each, and leaves the other jobs as they are; every active
\* pilot then lists each newly Active job exactly once in relatedJobs and keeps
\* the jobs it listed; inactive pilots are unchanged
C33_ProgressAllOneStep ==
  [][(Ran /\ last'.key = "POST /api/jobs/progress-all") =>
       /\ Len(jobs') = Len(jobs)
       /\ \A i \in 1..Len(jobs) :
            jobs'[i] = [jobs[i] EXCEPT !.state = progressed(jobs[i].state)]
       /\ DOMAIN pilots' = DOMAIN pilots
       /\ \A p \in DOMAIN pilots :
            IF pilots[p].active /\ pendingJobIds # {}
            THEN /\ \A id \in pendingJobIds :
                      occurrences(pilots'[p].relatedJobs, id) = 1
                 /\ Range(pilots'[p].relatedJobs) =
                      Range(pilots[p].relatedJobs) \cup pendingJobIds
                 /\ pilots'[p] = [pilots[p] EXCEPT !.relatedJobs = pilots'[p].relatedJobs]
            ELSE pilots'[p] = pilots[p]]_vars

\* after two pilot edits and progress-all job 12 is Active; the active first
\* pilot lists it once, and the inactive second pilot does not list it
C33_Witness ==
  /\ last.key = "POST /api/jobs/progress-all"
  /\ jobs[2].id = 12 /\ jobs[2].state = "Active"
  /\ pilots["p1"].active /\ pilots["p1"].relatedJobs = <<12>>
  /\ ~pilots["p2"].active /\ pilots["p2"].relatedJobs = <<>>
  /\ served = 3

\* ------------------------------------------------------------------- C34

\* the routes that store a job state taken from the request
JobStateRoutes == {"POST /api/jobs", "PUT /api/jobs/:id", "PUT /api/jobs/:id/state"}

\* the job the request of this step created or addressed, after the step
storedJob ==
  IF last'.key = "POST /api/jobs" THEN jobs'[Len(jobs')]
  ELSE jobs'[findIndex(jobs', last'.input.id)]

\* C34: every stored job's state is one of Pending, Active, Complete, Failed,
\* Ignored; job create, full update and the state-only update store Pending
\* when no state is sent, and answer 400 and store nothing when the state sent
\* is not one of the five
C34_JobStatesValid ==
  /\ [](\A i \in 1..Len(jobs) : jobs[i].state \in Range(JOB_STATES))
  /\ [][(Ran /\ last'.key \in JobStateRoutes) =>
          /\ (last'.input.state = "" /\ last'.reason = "ok") =>
               storedJob.state = "Pending"
          /\ last'.input.state \notin Range(JOB_STATES) \cup {""} =>
               /\ last'.status \in {400, 404}
               /\ last'.trace = <<>>
               /\ jobs' = jobs]_vars

\* a job created without a state is stored as Pending
C34_Witness ==
  /\ last.key = "POST /api/jobs" /\ last.reason = "ok"
  /\ last.input.state = ""
  /\ Len(jobs) = 3
  /\ jobs[3].state = "Pending"

\* ------------------------------------------------------------------- C35

\* this step is a procurement purchase that was accepted and fully written
procured == Ran /\ last'.key = "procurement-purchase" /\ last'.reason = "ok"

\* the ids of stock, each with its number of occurrences, after the step are
\* those before it with one occurrence of itemId less
oneOccurrenceLess(itemId) ==
  /\ Len(storeConfig'.currentStock) = Len(storeConfig.currentStock) - 1
  /\ \A id \in Range(storeConfig.currentStock) :
       occurrences(storeConfig'.currentStock, id) =
         occurrences(storeConfig.currentStock, id) - (IF id = itemId THEN 1 ELSE 0)

\* list is old followed by one or more copies of id
extendedBy(old, list, id) ==
  /\ isPrefix(old, list)
  /\ Len(list) > Len(old)
  /\ \A k \in (Len(old) + 1)..Len(list) : list[k] = id

\* C35: a successful procurement purchase of a reserve takes exactly one
\* occurrence of the item out of the stock and appends exactly one entry
\* {reserveId, 'In Reserve'} to the assignee, payer or not, and to no other
\* pilot; the one new transaction is appended to the payers' lists and to no
\* other pilot's; a resupply purchase leaves the stock and every pilot's
\* reserves as they were
C35_ProcurementEffects ==
  [][procured =>
       LET in == last'.input
           payers == Range(in.expensePilots)
       IN /\ manna' = Append(manna, manna'[Len(manna')])
          /\ manna'[Len(manna')].id = nextId
          /\ \A p \in DOMAIN pilots :
               IF p \in payers
               THEN extendedBy(pilots[p].personalTransactions,
                               pilots'[p].personalTransactions, nextId)
               ELSE pilots'[p].personalTransactions = pilots[p].personalTransactions
          /\ in.itemType = "reserve" =>
               /\ oneOccurrenceLess(in.itemId)
               /\ \A p \in DOMAIN pilots :
                    pilots'[p].reserves =
                      IF p = in.assignee
                      THEN Append(pilots[p].reserves,
                                  [reserveId |-> in.itemId, deploymentStatus |-> "In Reserve"])
                      ELSE pilots[p].reserves
          /\ in.itemType = "resupply" =>
               /\ storeConfig'.currentStock = storeConfig.currentStock
               /\ \A p \in DOMAIN pilots : pilots'[p].reserves = pilots[p].reserves]_vars

\* the first pilot paid for a reserve for the second: of the two occurrences
\* the admin stocked one is left, the second pilot holds the reserve and the
\* first pilot references the transaction
C35_Witness ==
  /\ last.key = "procurement-purchase" /\ last.reason = "ok"
  /\ last.input.itemType = "reserve" /\ last.input.itemId = "ra"
  /\ last.input.assignee = "p2" /\ last.input.expensePilots = <<"p1">>
  /\ storeConfig.currentStock = <<"ra">>
  /\ pilots["p2"].reserves = <<[reserveId |-> "ra", deploymentStatus |-> "In Reserve"]>>
  /\ pilots["p1"].reserves = <<>>
  /\ pilots["p1"].personalTransactions = <<1, 3>>
  /\ pilots["p2"].personalTransactions = <<2>>

\* ------------------------------------------------------------------- C36

\* the ids of the ledger that some active pilot of the call lists
referencedByActive ==
  {call.transactions[i].id : i \in 1..Len(call.transactions)}
    \cap UNION {Range(call.pilots[i].personalTransactions) :
                  i \in {k \in 1..Len(call.pilots) : call.pilots[k].active}}

RECURSIVE totalFrom(_, _)
\* the sum of totalAmount over the rows k..Len(feed) of the feed, the rows
\* that are as old as row k or older
totalFrom(feed, k) ==
  IF k > Len(feed) THEN 0 ELSE feed[k].row.totalAmount + totalFrom(feed, k + 1)

\* C36: the feed holds exactly the ledger transactions some active pilot
\* lists, each once, newest first; a transaction only inactive pilots or no
\* pilot lists is not in it; the cumulative balance of a row is the sum of
\* totalAmount from the oldest row up to that row
C36_FeedOfActiveReferences ==
  (call.fn = "finances" /\ call.done) =>
    LET feed == call.allTransactions IN
    /\ {feed[k].row.id : k \in 1..Len(feed)} = referencedByActive
    /\ Len(feed) = Cardinality(referencedByActive)
    /\ \A k \in 1..Len(feed) :
         /\ \E i \in 1..Len(call.transactions) :
              /\ call.transactions[i].id = feed[k].row.id
              /\ call.transactions[i].amount = feed[k].row.amount
         /\ \A j \in (k + 1)..Len(feed) : feed[k].row.date >= feed[j].row.date
         /\ feed[k].cumulativeBalance = totalFrom(feed, k)

\* pilot A, active, lists both transactions; B, inactive, lists the second:
\* the feed shows the newer one first, with the sum of both
C36_Witness ==
  /\ call.fn = "finances" /\ call.done
  /\ call.pilots[1].active /\ call.pilots[1].personalTransactions = <<1, 2>>
  /\ ~call.pilots[2].active /\ call.pilots[2].personalTransactions = <<2>>
  /\ Len(call.transactions) = 2
  /\ call.transactions[1].date > call.transactions[2].date
  /\ Len(call.allTransactions) = 2
  /\ call.allTransactions[1].row.id = 1
  /\ call.allTransactions[1].cumulativeBalance = -200
  /\ call.allTransactions[2].cumulativeBalance = 100

\* ------------------------------------------------------------------- C37

RECURSIVE totalActiveBalance(_, _)
\* the sum of calculatePilotBalance over the active pilots
totalActiveBalance(ps, transactions) ==
  IF ps = <<>> THEN 0
  ELSE (IF Head(ps).active THEN calculatePilotBalance(Head(ps), transactions) ELSE 0)
       + totalActiveBalance(Tail(ps), transactions)

\* C37: the cumulative balance of the newest row of the full feed is the total
\* active balance, the sum of calculatePilotBalance over the active pilots (0
\* when the feed is empty), and that total is the activeBalance of
\* calculateBalancesFromPilots
C37_NewestCumulativeIsActiveBalance ==
  (call.fn = "finances" /\ call.done) =>
    /\ call.totalBalance = totalActiveBalance(call.pilots, call.transactions)
    /\ call.totalBalance = call.activeBalance
    /\ IF Len(call.allTransactions) = 0 THEN call.totalBalance = 0
       ELSE call.allTransactions[1].cumulativeBalance = call.totalBalance

\* both pilots active, A lists the first transaction twice and B both: the
\* newest row and the total are 3 * -300 + 100
C37_Witness ==
  /\ call.fn = "finances" /\ call.done
  /\ call.pilots[1].active /\ call.pilots[1].personalTransactions = <<1, 1>>
  /\ call.pilots[2].active /\ call.pilots[2].personalTransactions = <<1, 2>>
  /\ Len(call.transactions) = 2
  /\ call.totalBalance = -800
  /\ call.activeBalance = -800
  /\ call.allTransactions[1].cumulativeBalance = -800

\* ------------------------------------------------------------------- C38
\* C38: for every pilot, the balance GET /api/pilots/:id/balance answers is
\* the balance calculatePilotBalance attaches to the pilot in GET /api/pilots
\* and in the broadcasts, also when the pilot lists a transaction id more
\* than once.
C38_RouteBalanceIsEnrichedBalance ==
  \A p \in DOMAIN pilots :
    runningBalance(pilots[p], manna) = calculatePilotBalance(pilots[p], manna)

\* ------------------------------------------------------------------- C39

\* the requests between their successful acquire and their release
inCritical == {r \in Reqs : req[r].pc = "acquired"}

\* C39: the try/finally block runs without yielding, so at most one request is
\* between its acquire and its release whatever the lock keys, a lock is held
\* only by that request, no request waits in acquire's loop, and no request
\* fails with the lock timeout
C39_NeverContended ==
  /\ Cardinality(inCritical) <= 1
  /\ locks = {req[r].key : r \in inCritical}
  /\ \A r \in Reqs : req[r].pc # "waiting" /\ req[r].result # "timeout"
  /\ last # NoRun => last.reason # "lock_timeout"

\* two requests for the same lock key, the first rejected and the second
\* arrived after it: the second acquired the lock at once
C39_Witness ==
  /\ req["r1"].pc = "done" /\ req["r1"].result = "rejected"
  /\ req["r2"].pc = "acquired" /\ req["r2"].key = req["r1"].key
  /\ locks = {req["r2"].key}

\* ------------------------------------------------------------------- C40

transactionPilotsRoute == "PUT /api/manna/transaction/:id/pilots"

\* the ids of a list other than the transaction's, in their order
otherIds(ids, transactionId) == SelectSeq(ids, LAMBDA id : id # transactionId)

\* the request the last run served, sent again, would save the pilots as they are
repeatChangesNothing ==
  /\ transactionSetPilots(last.input).reason = "ok"
  /\ transactionSetPilots(last.input).new.pilots = pilots

\* C40: after PUT /api/manna/transaction/:id/pilots with the list S, the
\* pilots that list the transaction are exactly those of S, each lists it
\* once, the other ids of every pilot's list are as they were, and the same
\* request sent again changes nothing; with an id in S that is no pilot the
\* request is rejected and the pilots stay as they were
C40_SetPilotsExact ==
  [][(Ran /\ last'.key = transactionPilotsRoute) =>
       LET in == last'.input IN
       /\ last'.reason = "ok" =>
            /\ DOMAIN pilots' = DOMAIN pilots
            /\ \A p \in DOMAIN pilots :
                 /\ occurrences(pilots'[p].personalTransactions, in.id)
                      = IF p \in listed(in) THEN 1 ELSE 0
                 /\ otherIds(pilots'[p].personalTransactions, in.id)
                      = otherIds(pilots[p].personalTransactions, in.id)
            /\ repeatChangesNothing'
       /\ (in.pilotIds.fmt \in {"array", "json"} /\ listed(in) \ DOMAIN pilots # {}) =>
            /\ last'.reason # "ok"
            /\ last'.status \in {400, 404}
            /\ last'.trace = <<>>
            /\ pilots' = pilots]_vars

\* the first pilot was given the list 1, 2, 1 and then transaction 1 was set
\* to the second pilot alone: the first keeps 2, the second lists 1 once
C40_Witness ==
  /\ last.key = transactionPilotsRoute /\ last.reason = "ok"
  /\ last.input.id = 1 /\ last.input.pilotIds = Arr(<<"p2", "p2">>)
  /\ pilots["p1"].personalTransactions = <<2>>
  /\ occurrences(pilots["p2"].personalTransactions, 1) = 1

====
